---------------------------- MODULE Spec2Model ----------------------------
(***************************************************************************)
(* A model of the predictive-edge pipeline of nfl-model: the odds          *)
(* normaliser (American price -> implied probability -> vig-free pair,     *)
(* consensus price over books), the Kelly stake, the Elo rating model, the *)
(* team-game log and its rollups, the features of upcoming games, and the  *)
(* ridge regression with its training table and prediction matrix.         *)
(*                                                                         *)
(* Numbers.  Python floats are modelled by exact rationals <<n, d>> with   *)
(* d > 0 and gcd(n, d) = 1.  The IEEE specials keep d = 0: <<0, 0>> is     *)
(* NaN (which is also how pandas stores a missing value, and how None is   *)
(* modelled), <<1, 0>> is +inf and <<-1, 0>> is -inf.  Rounding of the     *)
(* floating-point operations is not modelled.                              *)
(***************************************************************************)
EXTENDS Integers, Sequences, FiniteSets

VARIABLES
    kelly,   \* one call of pipeline._kelly_fraction: arguments, position, result
    conv,    \* one pass price -> raw probability -> vig-free pair, per implementation
    odds,    \* one event of the odds feed and the moneyline row extracted from it
    upd,     \* one call of modeling._update_elo
    elo,     \* one run of modeling._train_elo_from_schedules
    roll,    \* a schedule and an edit of it, for features._team_rollups
    upc,     \* one call of features.build_upcoming_with_features
    reg,     \* one run of modeling.train_and_predict_upcoming
    win,     \* one team-season of a metric and its trailing means
    codes,   \* one franchise record per source, for the team-code normalizers
    feat,    \* one call of nfl_model/features.make_game_feature_rows
    sheet,   \* one build of the pick sheet from a schedule and an odds feed
    travel   \* one call of rest_travel.add_rest_and_travel

vars == <<kelly, conv, odds, upd, elo, roll, upc, reg, win, codes, feat, sheet, travel>>

Idle == [pc |-> "idle"]

-----------------------------------------------------------------------------
(* Rational arithmetic.                                                    *)

RECURSIVE Gcd(_, _)
Gcd(a, b) == IF b = 0 THEN a ELSE Gcd(b, a % b)

Abs(x) == IF x < 0 THEN -x ELSE x

Sgn(x) == IF x < 0 THEN -1 ELSE IF x > 0 THEN 1 ELSE 0

\* The rational n/d in lowest terms; a zero denominator gives the IEEE special.
Q(n, d) ==
    IF d = 0 THEN <<Sgn(n), 0>>
    ELSE LET g == Gcd(Abs(n), Abs(d))
             s == IF d < 0 THEN -1 ELSE 1
         IN  <<(s * n) \div g, (s * d) \div g>>

NaN == <<0, 0>>
Zero == <<0, 1>>
One == <<1, 1>>

\* None and NaN: pd.isna(x), x is None, math.isnan(x).
IsNull(x) == x = NaN
IsFinite(x) == x[2] # 0

RAdd(x, y) ==
    IF IsFinite(x) /\ IsFinite(y)
    THEN LET g == Gcd(x[2], y[2])
         IN  Q(x[1] * (y[2] \div g) + y[1] * (x[2] \div g), (x[2] \div g) * y[2])
    ELSE IF IsNull(x) \/ IsNull(y) THEN NaN
    ELSE IF IsFinite(x) THEN y
    ELSE IF IsFinite(y) THEN x
    ELSE IF x = y THEN x ELSE NaN

RNeg(x) == <<-x[1], x[2]>>

RSub(x, y) == RAdd(x, RNeg(y))

RMul(x, y) ==
    IF IsFinite(x) /\ IsFinite(y) THEN Q(x[1] * y[1], x[2] * y[2])
    ELSE IF IsNull(x) \/ IsNull(y) \/ x[1] = 0 \/ y[1] = 0 THEN NaN
    ELSE <<Sgn(x[1]) * Sgn(y[1]), 0>>

\* numpy's float64 division: x/0 is +-inf, 0/0 is NaN.
RDiv(x, y) ==
    IF IsFinite(x) /\ IsFinite(y) THEN Q(x[1] * y[2], x[2] * y[1])
    ELSE IF IsNull(x) \/ IsNull(y) THEN NaN
    ELSE IF IsFinite(x) THEN Zero
    ELSE IF IsFinite(y) THEN <<x[1] * (IF y[1] < 0 THEN -1 ELSE 1), 0>>
    ELSE NaN

\* x < y and x <= y; any comparison with NaN is False, as in IEEE 754.
RLt(x, y) ==
    /\ ~IsNull(x) /\ ~IsNull(y)
    /\ IF IsFinite(x) /\ IsFinite(y) THEN x[1] * y[2] < y[1] * x[2]
       ELSE IF IsFinite(x) THEN y[1] > 0
       ELSE IF IsFinite(y) THEN x[1] < 0
       ELSE x[1] < y[1]

RLe(x, y) == ~IsNull(x) /\ ~IsNull(y) /\ ~RLt(y, x)

RECURSIVE IsPowerOfTwo(_)
IsPowerOfTwo(d) == d = 1 \/ (d > 1 /\ d % 2 = 0 /\ IsPowerOfTwo(d \div 2))

\* A value that a float64 holds without rounding (the grid's numerators are
\* small): its denominator is a power of two.
Representable(x) == IsFinite(x) /\ IsPowerOfTwo(x[2])

\* Python's min(x, y): y when y < x, else x (so min(nan, y) is nan).
PyMin(x, y) == IF RLt(y, x) THEN y ELSE x

-----------------------------------------------------------------------------
(* Bounds of the input grids.                                              *)

\* Probabilities are the multiples of 1/ProbDen in [0, 1].
ProbDen == 10
\* American prices are the multiples of 50 up to 50 * MaxPriceIdx either way.
MaxPriceIdx == 3

Probs == {Q(i, ProbDen) : i \in 0..ProbDen} \cup {Q(3, 5)}
Prices == {Q(50 * i, 1) : i \in -MaxPriceIdx..MaxPriceIdx}
Caps == {Zero, Q(1, 20), Q(1, 4)}

-----------------------------------------------------------------------------
(* EdgeCalculator: pipeline._kelly_fraction.                               *)

\* b = (ml/100.0) if ml >= 0 else (100.0/(-ml))
KellyB_abs(ml) == RDiv(Q(Abs(ml[1]), ml[2]), Q(100, 1))
KellyB(ml) ==
    IF RLe(Zero, ml) THEN RDiv(ml, Q(100, 1)) ELSE RDiv(Q(100, 1), RNeg(ml))

\* f = (p*(b+1) - 1) / b, the unclipped Kelly fraction.
KellyRaw(p, ml) ==
    LET b == KellyB(ml)
    IN  RDiv(RSub(RMul(p, RAdd(b, One)), One), b)

\* The call's outcome: [raised, ret].  ptype is the run-time type of p: a Python
\* float raises ZeroDivisionError when b = 0.0, a numpy.float64 (a value read
\* from a DataFrame row) divides to -inf or NaN instead.
kelly_fraction(p, american_odds, cap, ptype) ==
    IF IsNull(p) \/ IsNull(american_odds) THEN [raised |-> FALSE, ret |-> Zero]
    ELSE LET b == KellyB(american_odds)
             f == KellyRaw(p, american_odds)
         IN  IF b = Zero /\ ptype = "float"
             THEN [raised |-> TRUE, ret |-> NaN]
             ELSE [raised |-> FALSE,
                   ret |-> IF RLe(f, Zero) THEN Zero ELSE PyMin(f, cap)]

KellyInit ==
    /\ kelly \in [pc : {"call"}, p : Probs, american_odds : Prices, cap : Caps,
                  ptype : {"float", "float64"}, raised : {FALSE}, ret : {NaN}]
    /\ conv = Idle /\ odds = Idle /\ upd = Idle /\ elo = Idle /\ roll = Idle
    /\ upc = Idle /\ reg = Idle /\ win = Idle
    /\ codes = Idle /\ feat = Idle /\ sheet = Idle /\ travel = Idle

KellyCall ==
    /\ kelly.pc = "call"
    /\ LET r == kelly_fraction(kelly.p, kelly.american_odds, kelly.cap, kelly.ptype)
       IN  kelly' = [kelly EXCEPT !.pc = "done", !.raised = r.raised, !.ret = r.ret]
    /\ UNCHANGED <<conv, odds, upd, elo, roll, upc, reg, win, codes, feat, sheet, travel>>

KellyNext == KellyCall

SpecKelly == KellyInit /\ [][KellyNext]_vars

(* C4: 0 <= f <= cap for every probability, price (0 included) and cap, no *)
(* exception, and f = 0 whenever prob*(b+1) - 1 <= 0.                      *)
C4_KellyBound ==
    kelly.pc = "done" =>
        /\ ~kelly.raised
        /\ RLe(Zero, kelly.ret) /\ RLe(kelly.ret, kelly.cap)
        /\ (RLe(RSub(RMul(kelly.p, RAdd(KellyB(kelly.american_odds), One)), One), Zero)
                => kelly.ret = Zero)

C5_Scenario ==
    /\ kelly.pc = "done"
    /\ kelly.p = Q(3, 5) /\ kelly.american_odds = Q(-150, 1) /\ kelly.cap = Q(1, 20)

(* C5 as written: probability 0.60 at price -150 with cap 0.05 has a raw   *)
(* Kelly fraction of about 0.50 and a capped stake fraction of 0.05.       *)
C5_Original ==
    C5_Scenario =>
        /\ RLe(Q(9, 20), KellyRaw(kelly.p, kelly.american_odds))
        /\ RLe(KellyRaw(kelly.p, kelly.american_odds), Q(11, 20))
        /\ kelly.ret = Q(1, 20)

(* C5 amended: probability 0.60 at price -150 is exactly break-even        *)
(* (b = 2/3, p*(b+1) - 1 = 0), so the raw Kelly fraction is 0 and the      *)
(* stake fraction returned is 0, not the cap.                              *)
C5_BreakEven ==
    C5_Scenario =>
        /\ ~kelly.raised
        /\ KellyRaw(kelly.p, kelly.american_odds) = Zero
        /\ kelly.ret = Zero

C5_Witness == C5_Scenario /\ ~kelly.raised

-----------------------------------------------------------------------------
(* OddsNormalizer: price -> implied probability, three implementations.    *)

\* A conversion whose positive branch is the complement: it rises with price.
american_to_prob_rising(o) ==
    IF IsNull(o) THEN NaN
    ELSE IF RLt(Zero, o) THEN RDiv(o, RAdd(o, Q(100, 1)))
    ELSE RDiv(RNeg(o), RAdd(RNeg(o), Q(100, 1)))

\* nfl_model/odds.py
american_to_prob_odds(o) ==
    IF IsNull(o) THEN NaN
    ELSE IF RLt(Zero, o) THEN RDiv(Q(100, 1), RAdd(o, Q(100, 1)))
    ELSE RDiv(RNeg(o), RAdd(RNeg(o), Q(100, 1)))

\* scripts/fetch_and_build.py
american_to_prob_fab(ml) ==
    IF IsNull(ml) THEN NaN
    ELSE IF RLt(Zero, ml) THEN RDiv(Q(100, 1), RAdd(ml, Q(100, 1)))
    ELSE RDiv(RNeg(ml), RAdd(RNeg(ml), Q(100, 1)))

\* streamlit_app.py, one element of the Series: pos = o > 0 is False for NaN,
\* and the neg branch then computes with NaN.
american_to_prob_app(o) ==
    IF RLt(Zero, o) THEN RDiv(Q(100, 1), RAdd(o, Q(100, 1)))
    ELSE RDiv(RNeg(o), RAdd(RNeg(o), Q(100, 1)))

\* scripts/fetch_and_build.py
remove_vig_raw(p_home_raw, p_away_raw) == <<p_home_raw, p_away_raw>>
remove_vig_pair(p_home_raw, p_away_raw) ==
    IF IsNull(p_home_raw) \/ IsNull(p_away_raw) THEN <<NaN, NaN>>
    ELSE LET s == RAdd(p_home_raw, p_away_raw)
         IN  IF RLe(s, Zero) THEN <<NaN, NaN>>
             ELSE <<RDiv(p_home_raw, s), RDiv(p_away_raw, s)>>

\* streamlit_app.py, one element of the two Series: s.replace({0: np.nan}).
remove_vig(p_home, p_away) ==
    LET s0 == RAdd(p_home, p_away)
        s == IF s0 = Zero THEN NaN ELSE s0
    IN  <<RDiv(p_home, s), RDiv(p_away, s)>>

Impls == {"odds", "fab", "app"}

ConvInit ==
    /\ conv \in [pc : {"price"}, home_ml : Prices \cup {NaN}, away_ml : Prices \cup {NaN},
                 raw : {[i \in Impls |-> <<NaN, NaN>>]},
                 fair : {[i \in {"fab", "app"} |-> <<NaN, NaN>>]}]
    /\ kelly = Idle /\ odds = Idle /\ upd = Idle /\ elo = Idle /\ roll = Idle
    /\ upc = Idle /\ reg = Idle /\ win = Idle
    /\ codes = Idle /\ feat = Idle /\ sheet = Idle /\ travel = Idle

\* The two prices of a game are converted by each implementation.
ConvToProb ==
    /\ conv.pc = "price"
    /\ conv' = [conv EXCEPT
           !.pc = "raw",
           !.raw = [i \in Impls |->
               IF i = "odds"
               THEN <<american_to_prob_odds(conv.home_ml), american_to_prob_odds(conv.away_ml)>>
               ELSE IF i = "fab"
               THEN <<american_to_prob_fab(conv.home_ml), american_to_prob_fab(conv.away_ml)>>
               ELSE <<american_to_prob_app(conv.home_ml), american_to_prob_app(conv.away_ml)>>]]
    /\ UNCHANGED <<kelly, odds, upd, elo, roll, upc, reg, win, codes, feat, sheet, travel>>

\* The raw pair is rescaled by the implementation that converted it.
ConvRemoveVig ==
    /\ conv.pc = "raw"
    /\ conv' = [conv EXCEPT
           !.pc = "fair",
           !.fair = [i \in {"fab", "app"} |->
               IF i = "fab" THEN remove_vig_pair(conv.raw["fab"][1], conv.raw["fab"][2])
               ELSE remove_vig(conv.raw["app"][1], conv.raw["app"][2])]]
    /\ UNCHANGED <<kelly, odds, upd, elo, roll, upc, reg, win, codes, feat, sheet, travel>>

ConvNext == ConvToProb \/ ConvRemoveVig

SpecConv == ConvInit /\ [][ConvNext]_vars

(* Vig removal applied to a pair of probabilities and again to its own     *)
(* output, by fetch_and_build.remove_vig_pair and streamlit_app.remove_vig. *)

VigImpls == {"fab", "app"}

VigInit ==
    /\ conv \in [pc : {"pair"}, p_home : Probs \cup {NaN}, p_away : Probs \cup {NaN},
                 fair : {[i \in VigImpls |-> <<NaN, NaN>>]},
                 again : {[i \in VigImpls |-> <<NaN, NaN>>]}]
    /\ kelly = Idle /\ odds = Idle /\ upd = Idle /\ elo = Idle /\ roll = Idle
    /\ upc = Idle /\ reg = Idle /\ win = Idle
    /\ codes = Idle /\ feat = Idle /\ sheet = Idle /\ travel = Idle

VigRemove ==
    /\ conv.pc = "pair"
    /\ conv' = [conv EXCEPT
           !.pc = "fair",
           !.fair = [i \in VigImpls |->
               IF i = "fab" THEN remove_vig_pair(conv.p_home, conv.p_away)
               ELSE remove_vig(conv.p_home, conv.p_away)]]
    /\ UNCHANGED <<kelly, odds, upd, elo, roll, upc, reg, win, codes, feat, sheet, travel>>

\* The float64 sum s = p_home + p_away that the second call computes from the
\* pair the first call returned for (p_home, p_away), relative to the pair
\* fair that the model keeps in exact rationals.  The returned floats are the
\* two quotients, each rounded, so their sum is 1.0 or one ulp off 1.0
\* (remove_vig_pair(0.2, 0.6) is (0.25, 0.7499999999999999), which adds up
\* to 0.9999999999999999).  The sum is exactly 1.0 when nothing is rounded:
\* - the two inputs are equal (s is 2 * p and p / s is 0.5), or one is 0
\*   (the quotients are 0.0 and 1.0);
\* - or inputs and quotients all have a power of two as denominator.
\* A null pair has a null sum.
FloatSumOfFair(p_home, p_away, fair) ==
    IF \/ IsNull(fair[1]) \/ IsNull(fair[2])
       \/ p_home = p_away \/ p_home = Zero \/ p_away = Zero
       \/ /\ Representable(p_home) /\ Representable(p_away)
          /\ Representable(fair[1]) /\ Representable(fair[2])
    THEN {RAdd(fair[1], fair[2])}
    ELSE {Q(999999, 1000000), One, Q(1000001, 1000000)}

\* The second call of each implementation on the pair its first call
\* returned: the guards and the two divisions of fetch_and_build.py:32-37 and
\* of streamlit_app.py:96-98, with the sum as the floats give it.
VigRemoveAgain ==
    /\ conv.pc = "fair"
    /\ \E s \in FloatSumOfFair(conv.p_home, conv.p_away, conv.fair["fab"]) :
           conv' = [conv EXCEPT
               !.pc = "again",
               !.again = [i \in VigImpls |->
                   LET f == conv.fair[i]
                   IN  IF i = "fab"
                       THEN IF IsNull(f[1]) \/ IsNull(f[2]) THEN <<NaN, NaN>>
                            ELSE IF RLe(s, Zero) THEN <<NaN, NaN>>
                            ELSE <<RDiv(f[1], s), RDiv(f[2], s)>>
                       ELSE LET s1 == IF s = Zero THEN NaN ELSE s
                            IN  <<RDiv(f[1], s1), RDiv(f[2], s1)>>]]
    /\ UNCHANGED <<kelly, odds, upd, elo, roll, upc, reg, win, codes, feat, sheet, travel>>

VigNext == VigRemove \/ VigRemoveAgain

SpecVigTwice == VigInit /\ [][VigNext]_vars

(* C20: vig removal is idempotent: a pair that sums to 1 is returned as it *)
(* is, and vig removal applied to its own output returns the same pair.    *)
C20_VigIdempotent ==
    /\ (conv.pc \in {"fair", "again"} /\ RAdd(conv.p_home, conv.p_away) = One) =>
           \A i \in VigImpls : conv.fair[i] = <<conv.p_home, conv.p_away>>
    /\ conv.pc = "again" => \A i \in VigImpls : conv.again[i] = conv.fair[i]

\* What holds of every outcome: the first call returns a pair that sums to 1
\* as it is, the second call returns the pair of equal inputs, (1/2, 1/2),
\* as it is, and a null stays null.
C20_FirstCallAndExactPairs ==
    /\ (conv.pc \in {"fair", "again"} /\ RAdd(conv.p_home, conv.p_away) = One) =>
           \A i \in VigImpls : conv.fair[i] = <<conv.p_home, conv.p_away>>
    /\ conv.pc = "again" =>
           \A i \in VigImpls :
               /\ \A k \in {1, 2} : IsNull(conv.fair[i][k]) <=> IsNull(conv.again[i][k])
               /\ conv.fair[i] = <<Q(1, 2), Q(1, 2)>> => conv.again[i] = conv.fair[i]

\* The value the formula of the spec gives for a price.
PriceToProbSpec(price) ==
    IF RLe(Zero, price) THEN Q(100 * price[2], price[1] + 100 * price[2])
    ELSE Q(-price[1], -price[1] + 100 * price[2])

(* C6: every implementation returns 100/(price+100) for price >= 0 (1 at   *)
(* price 0) and |price|/(|price|+100) for price < 0.                       *)
C6_PriceToProb ==
    conv.pc = "raw" =>
        \A i \in Impls :
            /\ ~IsNull(conv.home_ml) => conv.raw[i][1] = PriceToProbSpec(conv.home_ml)
            /\ ~IsNull(conv.away_ml) => conv.raw[i][2] = PriceToProbSpec(conv.away_ml)

(* C21: the implied probability falls strictly as a positive price rises, *)
(* rises strictly with |price| over negative prices, and lies in [0, 1]    *)
(* for every non-null price.  The two prices of the game are the pair      *)
(* compared.                                                               *)
C21_Monotone ==
    conv.pc = "raw" =>
        \A i \in Impls :
            LET p == conv.home_ml
                q == conv.away_ml
                fp == conv.raw[i][1]
                fq == conv.raw[i][2]
            IN  /\ (RLt(Zero, p) /\ RLt(p, q)) => RLt(fq, fp)
                /\ (RLt(p, q) /\ RLt(q, Zero)) => RLt(fq, fp)
                /\ ~IsNull(p) => (RLe(Zero, fp) /\ RLe(fp, One))
                /\ ~IsNull(q) => (RLe(Zero, fq) /\ RLe(fq, One))

\* +100 against +150: 1/2 against 2/5.
C21_Witness ==
    /\ conv.pc = "raw"
    /\ conv.home_ml = Q(100, 1) /\ conv.away_ml = Q(150, 1)
    /\ \A i \in Impls : conv.raw[i] = <<Q(1, 2), Q(2, 5)>>

-----------------------------------------------------------------------------
(* OddsNormalizer: the consensus moneyline of one event.                   *)
(*                                                                         *)
(* An event of the feed is a sequence of bookmakers, each a record         *)
(* [key, h, a]: the book's key and the prices of its h2h market for the    *)
(* home and the away team, NaN (None) for a side the book has no outcome   *)
(* for.  Book keys are distinct within an event.                           *)

\* Books per event.
MaxBooks == 2

BookKeys == {"draftkings", "fanduel", "betmgm"}
QuotePrices == {Q(-150, 1), Q(-110, 1), Q(130, 1)}
BookRecs == [key : BookKeys, h : QuotePrices \cup {NaN}, a : QuotePrices \cup {NaN}]
PreferLists == {<<>>, <<"draftkings">>, <<"draftkings", "fanduel">>, <<"fanduel", "draftkings">>}

Range(f) == {f[i] : i \in DOMAIN f}

Events ==
    UNION {{bks \in [1..n -> BookRecs] :
                \A i, j \in 1..n : i # j => bks[i].key # bks[j].key} : n \in 0..MaxBooks}

\* Ascending insertion sort, as sorted() orders numbers.
RECURSIVE InsertSorted(_, _)
InsertSorted(x, srt) ==
    IF srt = <<>> THEN <<x>>
    ELSE IF RLe(x, Head(srt)) THEN <<x>> \o srt
    ELSE <<Head(srt)>> \o InsertSorted(x, Tail(srt))

RECURSIVE SortNums(_)
SortNums(vals) == IF vals = <<>> THEN <<>> ELSE InsertSorted(Head(vals), SortNums(Tail(vals)))

\* np.median and statistics.median of a non-empty list: the middle value, or
\* the mean of the two middle values.
Median(vals) ==
    LET srt == SortNums(vals)
        n == Len(srt)
    IN  IF n % 2 = 1 THEN srt[(n + 1) \div 2]
        ELSE RDiv(RAdd(srt[n \div 2], srt[n \div 2 + 1]), Q(2, 1))

\* The non-null values of a list, in order.
RECURSIVE NonNull(_)
NonNull(vals) ==
    IF vals = <<>> THEN <<>>
    ELSE IF IsNull(Head(vals)) THEN NonNull(Tail(vals))
    ELSE <<Head(vals)>> \o NonNull(Tail(vals))

\* nfl_model/odds.py
choose_consensus_zero(values) ==
    LET vals == NonNull(values) IN IF vals = <<>> THEN Zero ELSE Median(vals)
choose_consensus(values) ==
    LET vals == NonNull(values) IN IF vals = <<>> THEN NaN ELSE Median(vals)

\* list.index
IndexOf(order, x) == CHOOSE i \in 1..Len(order) : order[i] = x /\ \A j \in 1..(i - 1) : order[j] # x

\* nfl_model/odds.py: the 0-based position in the preferred list, else past its end.
book_priority(order_first, book_key) ==
    IF book_key \in Range(order_first) THEN IndexOf(order_first, book_key) - 1
    ELSE Len(order_first) + 1

\* sorted(bookmakers, key=_book_priority): stable.
RECURSIVE InsertByPriority(_, _, _)
InsertByPriority(bk, srt, order) ==
    IF srt = <<>> THEN <<bk>>
    ELSE IF book_priority(order, bk.key) < book_priority(order, Head(srt).key)
         THEN <<bk>> \o srt
    ELSE <<Head(srt)>> \o InsertByPriority(bk, Tail(srt), order)

RECURSIVE SortByPriority(_, _)
SortByPriority(bks, order) ==
    IF bks = <<>> THEN <<>>
    ELSE InsertByPriority(bks[Len(bks)], SortByPriority(SubSeq(bks, 1, Len(bks) - 1), order), order)

\* The books of a list that quote both sides, in order.
RECURSIVE BothSides(_)
BothSides(bks) ==
    IF bks = <<>> THEN <<>>
    ELSE IF ~IsNull(Head(bks).h) /\ ~IsNull(Head(bks).a) THEN <<Head(bks)>> \o BothSides(Tail(bks))
    ELSE BothSides(Tail(bks))

RECURSIVE KeepKeys(_, _)
KeepKeys(bks, keys) ==
    IF bks = <<>> THEN <<>>
    ELSE IF Head(bks).key \in keys THEN <<Head(bks)>> \o KeepKeys(Tail(bks), keys)
    ELSE KeepKeys(Tail(bks), keys)

\* nfl_model/odds.py: the row of one event.
extract_consensus_moneylines(bookmakers, prefer_books) ==
    LET both == BothSides(SortByPriority(bookmakers, prefer_books))
        pref == KeepKeys(both, Range(prefer_books))
        home_prices == [i \in 1..Len(both) |-> both[i].h]
        away_prices == [i \in 1..Len(both) |-> both[i].a]
        preferred_seen == pref # <<>>
        home_ml == IF preferred_seen THEN pref[1].h ELSE choose_consensus(home_prices)
        away_ml == IF preferred_seen THEN pref[1].a ELSE choose_consensus(away_prices)
    IN  [home_ml |-> home_ml, away_ml |-> away_ml,
         home_prob |-> american_to_prob_odds(home_ml),
         away_prob |-> american_to_prob_odds(away_ml)]

\* scripts/fetch_and_build.py: the row of one event.
extract_moneylines(bookmakers, books) ==
    LET use_books == Range(books)
        used == IF use_books # {} THEN KeepKeys(bookmakers, use_books) ELSE bookmakers
        home_quotes == NonNull([i \in 1..Len(used) |-> used[i].h])
        away_quotes == NonNull([i \in 1..Len(used) |-> used[i].a])
    IN  IF home_quotes = <<>> \/ away_quotes = <<>>
        THEN [home_ml |-> NaN, away_ml |-> NaN, home_prob_raw |-> NaN,
              away_prob_raw |-> NaN, home_prob |-> NaN, away_prob |-> NaN]
        ELSE LET home_ml == Median(home_quotes)
                 away_ml == Median(away_quotes)
                 p_home_raw == american_to_prob_fab(home_ml)
                 p_away_raw == american_to_prob_fab(away_ml)
                 fair == remove_vig_pair(p_home_raw, p_away_raw)
             IN  [home_ml |-> home_ml, away_ml |-> away_ml,
                  home_prob_raw |-> p_home_raw, away_prob_raw |-> p_away_raw,
                  home_prob |-> fair[1], away_prob |-> fair[2]]

NoRow == [home_ml |-> NaN]

OddsInit ==
    /\ odds \in [pc : {"feed"}, bookmakers : Events, prefer : PreferLists,
                 row_odds : {NoRow}, row_fab : {NoRow}]
    /\ kelly = Idle /\ conv = Idle /\ upd = Idle /\ elo = Idle /\ roll = Idle
    /\ upc = Idle /\ reg = Idle /\ win = Idle
    /\ codes = Idle /\ feat = Idle /\ sheet = Idle /\ travel = Idle

OddsExtractConsensus ==
    /\ odds.pc = "feed"
    /\ odds' = [odds EXCEPT !.pc = "consensus",
                    !.row_odds = extract_consensus_moneylines(odds.bookmakers, odds.prefer)]
    /\ UNCHANGED <<kelly, conv, upd, elo, roll, upc, reg, win, codes, feat, sheet, travel>>

OddsExtractMoneylines ==
    /\ odds.pc = "consensus"
    /\ odds' = [odds EXCEPT !.pc = "done",
                    !.row_fab = extract_moneylines(odds.bookmakers, odds.prefer)]
    /\ UNCHANGED <<kelly, conv, upd, elo, roll, upc, reg, win, codes, feat, sheet, travel>>

OddsNext == OddsExtractConsensus \/ OddsExtractMoneylines

SpecOdds == OddsInit /\ [][OddsNext]_vars

(* C8: the market probabilities of every extracted row whose two consensus *)
(* prices are non-null are a vig-free pair: home_prob + away_prob = 1.     *)
C8_VigFreePair ==
    odds.pc = "done" =>
        \A row \in {[ml_h |-> odds.row_odds.home_ml, ml_a |-> odds.row_odds.away_ml,
                     p_h |-> odds.row_odds.home_prob, p_a |-> odds.row_odds.away_prob],
                    [ml_h |-> odds.row_fab.home_ml, ml_a |-> odds.row_fab.away_ml,
                     p_h |-> odds.row_fab.home_prob, p_a |-> odds.row_fab.away_prob]} :
            (~IsNull(row.ml_h) /\ ~IsNull(row.ml_a)) => RAdd(row.p_h, row.p_a) = One

\* The consensus the spec prescribes: the earliest-listed preferred book that
\* quotes both sides, else the per-side median over every quote of every book.
PreferredQuoting(bookmakers, prefer) ==
    {i \in 1..Len(prefer) :
        \E b \in Range(bookmakers) : b.key = prefer[i] /\ ~IsNull(b.h) /\ ~IsNull(b.a)}

ConsensusSpec(bookmakers, prefer) ==
    LET pq == PreferredQuoting(bookmakers, prefer)
    IN  IF pq # {}
        THEN LET first == CHOOSE i \in pq : \A j \in pq : i <= j
                 b == CHOOSE x \in Range(bookmakers) : x.key = prefer[first]
             IN  <<b.h, b.a>>
        ELSE LET hs == NonNull([i \in 1..Len(bookmakers) |-> bookmakers[i].h])
                 as == NonNull([i \in 1..Len(bookmakers) |-> bookmakers[i].a])
             IN  <<IF hs = <<>> THEN NaN ELSE Median(hs),
                   IF as = <<>> THEN NaN ELSE Median(as)>>

(* C9: with a preferred book quoting both sides the consensus prices are   *)
(* those of the earliest-listed such book; otherwise each side is the      *)
(* median of all quotes of that side across all books.  Stated for the     *)
(* events in which every book quotes both sides.                           *)
C9_ConsensusSelection ==
    (odds.pc = "done" /\ \A b \in Range(odds.bookmakers) : ~IsNull(b.h) /\ ~IsNull(b.a)) =>
        LET want == ConsensusSpec(odds.bookmakers, odds.prefer)
        IN  /\ <<odds.row_odds.home_ml, odds.row_odds.away_ml>> = want
            /\ <<odds.row_fab.home_ml, odds.row_fab.away_ml>> = want

NoQuote(side) ==
    \A b \in Range(odds.bookmakers) : IsNull(IF side = "h" THEN b.h ELSE b.a)

(* C10: a side without any quote has a null consensus price (not 0), and a *)
(* null price always gives a null probability, raw and vig-free.           *)
C10_NullPropagation ==
    odds.pc = "done" =>
        /\ NoQuote("h") => IsNull(odds.row_odds.home_ml) /\ IsNull(odds.row_fab.home_ml)
        /\ NoQuote("a") => IsNull(odds.row_odds.away_ml) /\ IsNull(odds.row_fab.away_ml)
        /\ IsNull(odds.row_odds.home_ml) => IsNull(odds.row_odds.home_prob)
        /\ IsNull(odds.row_odds.away_ml) => IsNull(odds.row_odds.away_prob)
        /\ IsNull(odds.row_fab.home_ml) =>
               IsNull(odds.row_fab.home_prob_raw) /\ IsNull(odds.row_fab.home_prob)
        /\ IsNull(odds.row_fab.away_ml) =>
               IsNull(odds.row_fab.away_prob_raw) /\ IsNull(odds.row_fab.away_prob)

\* Books quote the away team only: the home side has no quote at all.
C10_Witness ==
    /\ odds.pc = "done"
    /\ odds.bookmakers # <<>>
    /\ NoQuote("h") /\ ~NoQuote("a")
    /\ IsNull(odds.row_odds.home_ml) /\ IsNull(odds.row_odds.home_prob)
    /\ IsNull(odds.row_fab.home_ml) /\ IsNull(odds.row_fab.home_prob)

\* A valid American price: at most -100 or at least +100.
ValidPrice(x) == IsFinite(x) /\ (RLe(x, Q(-100, 1)) \/ RLe(Q(100, 1), x))

\* The quotes of a side that go into its consensus, for each extractor.
QuotesUsed(side, extractor) ==
    LET bks == IF extractor = "odds" THEN BothSides(odds.bookmakers)
               ELSE IF odds.prefer # <<>> THEN KeepKeys(odds.bookmakers, Range(odds.prefer))
               ELSE odds.bookmakers
    IN  NonNull([i \in 1..Len(bks) |-> IF side = "home" THEN bks[i].h ELSE bks[i].a])

(* C27: every quote of the feed being a valid American price, the          *)
(* consensus price of a side is one too (<= -100 or >= +100) for any       *)
(* number of books, and the probability implied by it is strictly between  *)
(* 0 and 1.                                                                *)
C27_ConsensusIsPrice ==
    odds.pc = "done" =>
        \A row \in {odds.row_odds, odds.row_fab} :
            /\ ~IsNull(row.home_ml) =>
                   /\ ValidPrice(row.home_ml)
                   /\ RLt(Zero, american_to_prob_odds(row.home_ml))
                   /\ RLt(american_to_prob_odds(row.home_ml), One)
            /\ ~IsNull(row.away_ml) =>
                   /\ ValidPrice(row.away_ml)
                   /\ RLt(Zero, american_to_prob_odds(row.away_ml))
                   /\ RLt(american_to_prob_odds(row.away_ml), One)

\* With an odd number of quotes for a side the consensus is one of them.
C27_OddCountIsPrice ==
    odds.pc = "done" =>
        /\ (~IsNull(odds.row_odds.home_ml) /\ Len(QuotesUsed("home", "odds")) % 2 = 1)
               => ValidPrice(odds.row_odds.home_ml)
        /\ (~IsNull(odds.row_fab.home_ml) /\ Len(QuotesUsed("home", "fab")) % 2 = 1)
               => ValidPrice(odds.row_fab.home_ml)
        /\ (~IsNull(odds.row_odds.away_ml) /\ Len(QuotesUsed("away", "odds")) % 2 = 1)
               => ValidPrice(odds.row_odds.away_ml)
        /\ (~IsNull(odds.row_fab.away_ml) /\ Len(QuotesUsed("away", "fab")) % 2 = 1)
               => ValidPrice(odds.row_fab.away_ml)

-----------------------------------------------------------------------------
(* RatingModel: nfl_model/modeling.py.                                     *)
(*                                                                         *)
(* 10 ** x has no exact rational value, so the rating model is computed in *)
(* fixed point: a rating is an integer number of hundredths of an Elo      *)
(* point, a probability an integer number of 1/ProbOne, and 10 ** (d/400)  *)
(* is taken at the rating difference d rounded to a whole point, as a      *)
(* product of the powers 10 ** (2^i / 400) held to 1/FixOne.  The          *)
(* probability agrees with the float to within 0.001.                      *)

FixOne == 10000
ProbOne == 100000
\* ratings.get(team, 1500.0), in hundredths of a point
DefaultRating == 150000

\* round(FixOne * 10 ** (2^i / 400)), i = 0..8
Pow10Bits == <<10058, 10116, 10233, 10471, 10965, 12023, 14454, 20893, 43652>>

RoundDiv(n, d) == Sgn(n) * ((Abs(n) + d \div 2) \div d)

\* a * b / FixOne without leaving 32 bits
MulFix(a, b) == a * (b \div FixOne) + (a * (b % FixOne) + FixOne \div 2) \div FixOne

RECURSIVE Pow10Frac(_, _)
\* FixOne * 10 ** (r / 400) for 0 <= r < 400, from bit i of r upwards.
Pow10Frac(r, i) ==
    IF i > Len(Pow10Bits) THEN FixOne
    ELSE IF (r \div (2 ^ (i - 1))) % 2 = 1
         THEN MulFix(Pow10Frac(r, i + 1), Pow10Bits[i])
    ELSE Pow10Frac(r, i + 1)

\* FixOne * 10 ** (d / 400) for a whole d >= 0
Pow10(d) == (10 ^ (d \div 400)) * Pow10Frac(d % 400, 1)

\* diff = (elo_home + hfa) - elo_away; 1.0 / (1.0 + 10.0 ** (-diff / 400.0))
expected_home_prob(elo_home, elo_away, hfa) ==
    LET diff == (elo_home + 100 * hfa) - elo_away
        y == Pow10(RoundDiv(Abs(diff), 100))
        t == RoundDiv(ProbOne * FixOne, FixOne + y)
    IN  IF diff >= 0 THEN ProbOne - t ELSE t

\* delta_home = k * (home_win - ph), in hundredths of a point
DeltaHome(elo_home, elo_away, home_win, k, hfa) ==
    RoundDiv(k * (home_win * ProbOne - expected_home_prob(elo_home, elo_away, hfa)), 1000)

update_elo_away_kept(elo_home, elo_away, home_win, k, hfa) ==
    <<elo_home + DeltaHome(elo_home, elo_away, home_win, k, hfa), elo_away>>
update_elo(elo_home, elo_away, home_win, k, hfa) ==
    LET delta_home == DeltaHome(elo_home, elo_away, home_win, k, hfa)
        delta_away == -delta_home
    IN  <<elo_home + delta_home, elo_away + delta_away>>

RatingGrid == {135000, 150000, 150844, 162550}
KFactors == {10, 20, 32}
HomeFields == {0, 55, 65}

UpdInit ==
    /\ upd \in [pc : {"call"}, elo_home : RatingGrid, elo_away : RatingGrid,
                home_win : {0, 1}, k : KFactors, hfa : HomeFields, ret : {<<0, 0>>}]
    /\ kelly = Idle /\ conv = Idle /\ odds = Idle /\ elo = Idle /\ roll = Idle
    /\ upc = Idle /\ reg = Idle /\ win = Idle
    /\ codes = Idle /\ feat = Idle /\ sheet = Idle /\ travel = Idle

UpdCall ==
    /\ upd.pc = "call"
    /\ upd' = [upd EXCEPT !.pc = "done",
                   !.ret = update_elo(upd.elo_home, upd.elo_away, upd.home_win, upd.k, upd.hfa)]
    /\ UNCHANGED <<kelly, conv, odds, elo, roll, upc, reg, win, codes, feat, sheet, travel>>

UpdNext == UpdCall

SpecUpdateElo == UpdInit /\ [][UpdNext]_vars

(* C2: the update is zero-sum, new_home - rating_home =                    *)
(* -(new_away - rating_away), with home delta k * (outcome - expected      *)
(* home win probability): up after a home win, down otherwise, by at most  *)
(* k points.                                                               *)
C2_ZeroSum ==
    upd.pc = "done" =>
        LET dh == upd.ret[1] - upd.elo_home
            da == upd.ret[2] - upd.elo_away
            ph == expected_home_prob(upd.elo_home, upd.elo_away, upd.hfa)
        IN  /\ dh = -da
            /\ ph > 0 /\ ph < ProbOne
            /\ 1000 * Abs(dh) - 500 <= upd.k * Abs(upd.home_win * ProbOne - ph)
            /\ upd.k * Abs(upd.home_win * ProbOne - ph) <= 1000 * Abs(dh) + 500
            /\ (upd.home_win = 1 => dh > 0 /\ dh < 100 * upd.k)
            /\ (upd.home_win = 0 => dh < 0 /\ dh > -100 * upd.k)

\* The scenario of the spec: 1500 v 1500, hfa 55, k 20, home win: about +8.4.
C2_Witness ==
    /\ upd.pc = "done"
    /\ upd.elo_home = 150000 /\ upd.elo_away = 150000
    /\ upd.hfa = 55 /\ upd.k = 20 /\ upd.home_win = 1
    /\ upd.ret[1] > 150840 /\ upd.ret[1] < 150848
    /\ upd.ret[2] = 300000 - upd.ret[1]

-----------------------------------------------------------------------------
(* RatingModel: _train_elo_from_schedules.                                 *)
(*                                                                         *)
(* A game is [home_team, away_team, gameday, home_score, away_score]; a    *)
(* score is NaN when the game has not been played.  As in a real schedule, *)
(* the gameday column is present and holds dates (here 1, 2), and no team  *)
(* plays twice on one gameday.                                             *)

\* Rows of the schedule frame.
MaxGames == 3
\* k: float = 20.0, hfa: float = 55.0
KFactor == 20
HomeField == 55

Gamedays == {1, 2}
\* <<home_team, away_team>> as the schedule source spells them
Matchups == {<<"KC", "BUF">>, <<"SD", "OAK">>, <<"BUF", "SD">>, <<"OAK", "KC">>}
\* <<home_score, away_score>>: not played, home win, away win
ScorePairs == {<<NaN, NaN>>, <<Q(24, 1), Q(17, 1)>>, <<Q(17, 1), Q(24, 1)>>}

\* TEAM_FIX and _fix_abbr_series
fix_abbr(t) ==
    IF t \in {"LA", "STL"} THEN "LAR" ELSE IF t = "SD" THEN "LAC" ELSE IF t = "OAK" THEN "LV" ELSE t

GameRecs ==
    {[home_team |-> m[1], away_team |-> m[2], gameday |-> d, home_score |-> sc[1], away_score |-> sc[2]] :
        m \in Matchups, d \in Gamedays, sc \in ScorePairs}

TeamsOf(g) == {fix_abbr(g.home_team), fix_abbr(g.away_team)}

RECURSIVE SchedulesOfLen(_)
\* The schedules of n rows, in every row order.
SchedulesOfLen(n) ==
    IF n = 0 THEN {<<>>}
    ELSE {Append(gs, g) : <<gs, g>> \in
             {x \in SchedulesOfLen(n - 1) \X GameRecs :
                 \A i \in 1..(n - 1) :
                     x[1][i].gameday = x[2].gameday => TeamsOf(x[1][i]) \cap TeamsOf(x[2]) = {}}}

Schedules == UNION {SchedulesOfLen(n) : n \in 0..MaxGames}

Scored(g) == ~IsNull(g.home_score) /\ ~IsNull(g.away_score)

\* games.loc[home_score.notna() & away_score.notna()], team codes fixed
RECURSIVE KeepScored(_)
KeepScored(gs) ==
    IF gs = <<>> THEN <<>>
    ELSE IF Scored(Head(gs))
         THEN <<[Head(gs) EXCEPT !.home_team = fix_abbr(@), !.away_team = fix_abbr(@)]>>
                  \o KeepScored(Tail(gs))
    ELSE KeepScored(Tail(gs))

Perms(n) == {f \in [1..n -> 1..n] : \A i, j \in 1..n : i # j => f[i] # f[j]}

\* games.sort_values("gameday"): the sort is not stable, rows of one gameday
\* come out in any order.
Unsorted(gs) == {gs}
SortedByGameday(gs) ==
    {[i \in 1..Len(gs) |-> gs[f[i]]] : f \in
        {f \in Perms(Len(gs)) : \A i, j \in 1..Len(gs) : i < j => gs[f[i]].gameday <= gs[f[j]].gameday}}

\* A lookup whose default is not the rating a new team is given.
get_low(ratings, team) == IF team \in DOMAIN ratings THEN ratings[team] ELSE DefaultRating - 10000

\* ratings.get(team, 1500.0)
get(ratings, team) == IF team \in DOMAIN ratings THEN ratings[team] ELSE DefaultRating

EloInit ==
    /\ elo \in [pc : {"load"}, games : Schedules, rows : {<<>>}, i : {1},
                ratings : {[t \in {} |-> 0]}, log : {<<>>}]
    /\ kelly = Idle /\ conv = Idle /\ odds = Idle /\ upd = Idle /\ roll = Idle
    /\ upc = Idle /\ reg = Idle /\ win = Idle
    /\ codes = Idle /\ feat = Idle /\ sheet = Idle /\ travel = Idle

\* A load that goes on with the mapping it finds.
EloLoadKept ==
    /\ elo.pc = "load"
    /\ \E rows \in SortedByGameday(KeepScored(elo.games)) :
           elo' = [elo EXCEPT !.pc = "loop", !.rows = rows, !.i = 1, !.log = <<>>]
    /\ UNCHANGED <<kelly, conv, odds, upd, roll, upc, reg, win, codes, feat, sheet, travel>>

\* Lines 35-52: filter, fix the codes, a new empty mapping (line 43), sort.
EloLoad ==
    /\ elo.pc = "load"
    /\ \E rows \in SortedByGameday(KeepScored(elo.games)) :
           elo' = [elo EXCEPT !.pc = "loop", !.rows = rows, !.i = 1, !.log = <<>>,
                              !.ratings = [t \in {} |-> 0]]
    /\ UNCHANGED <<kelly, conv, odds, upd, roll, upc, reg, win, codes, feat, sheet, travel>>

\* One iteration of the loop over games.iterrows().
EloGame ==
    /\ elo.pc = "loop"
    /\ elo.i <= Len(elo.rows)
    /\ LET r == elo.rows[elo.i]
           ht == r.home_team
           at == r.away_team
       IN  IF IsNull(r.home_score) \/ IsNull(r.away_score)
           THEN elo' = [elo EXCEPT !.i = @ + 1]
           ELSE LET eh == get(elo.ratings, ht)
                    ea == get(elo.ratings, at)
                    home_win == IF RLt(r.away_score, r.home_score) THEN 1 ELSE 0
                    new == update_elo(eh, ea, home_win, KFactor, HomeField)
                IN  elo' = [elo EXCEPT
                        !.i = @ + 1,
                        !.ratings = [t \in DOMAIN elo.ratings \cup {ht, at} |->
                                        IF t = at THEN new[2]
                                        ELSE IF t = ht THEN new[1]
                                        ELSE elo.ratings[t]],
                        !.log = Append(@, [game |-> r, eh |-> eh, ea |-> ea])]
    /\ UNCHANGED <<kelly, conv, odds, upd, roll, upc, reg, win, codes, feat, sheet, travel>>

\* return ratings
EloReturn ==
    /\ elo.pc = "loop"
    /\ elo.i > Len(elo.rows)
    /\ elo' = [elo EXCEPT !.pc = "done"]
    /\ UNCHANGED <<kelly, conv, odds, upd, roll, upc, reg, win, codes, feat, sheet, travel>>

EloNext == EloLoad \/ EloGame \/ EloReturn

SpecTrainElo == EloInit /\ [][EloNext]_vars

\* The played games of the input, codes fixed.
PlayedGames == Range(KeepScored(elo.games))

RECURSIVE RatingBefore(_, _)
\* The rating a team carries into gameday d when every played game of an
\* earlier gameday has been applied, each reading the ratings of its own day.
RatingBefore(team, d) ==
    LET prior == {g \in PlayedGames : g.gameday < d /\ team \in {g.home_team, g.away_team}}
    IN  IF prior = {} THEN DefaultRating
        ELSE LET g == CHOOSE x \in prior : \A y \in prior : y.gameday <= x.gameday
                 new == update_elo(RatingBefore(g.home_team, g.gameday),
                                   RatingBefore(g.away_team, g.gameday),
                                   IF RLt(g.away_score, g.home_score) THEN 1 ELSE 0,
                                   KFactor, HomeField)
             IN  IF team = g.home_team THEN new[1] ELSE new[2]

(* C3: training applies the update once per played game in chronological   *)
(* order whatever the order of the input rows; each game reads the ratings *)
(* left by all earlier games (1500 for a team not seen before), and a game *)
(* with a missing score changes no rating.                                 *)
C3_ChronologicalTraining ==
    elo.pc \in {"loop", "done"} =>
        /\ \A n \in 1..Len(elo.log) :
               /\ elo.log[n].game \in PlayedGames
               /\ elo.log[n].eh = RatingBefore(elo.log[n].game.home_team, elo.log[n].game.gameday)
               /\ elo.log[n].ea = RatingBefore(elo.log[n].game.away_team, elo.log[n].game.gameday)
               /\ \A m \in 1..(n - 1) :
                      /\ elo.log[m].game.gameday <= elo.log[n].game.gameday
                      /\ elo.log[m].game # elo.log[n].game
        /\ elo.pc = "done" =>
               /\ Len(elo.log) = Cardinality(PlayedGames)
               /\ DOMAIN elo.ratings = UNION {{g.home_team, g.away_team} : g \in PlayedGames}
               /\ \A t \in DOMAIN elo.ratings : elo.ratings[t] = RatingBefore(t, 3)

\* The input lists a later game of a team before an earlier one and holds an
\* unplayed game; both played games were applied, the earlier one first.
C3_Witness ==
    /\ elo.pc = "done"
    /\ Len(elo.log) = 2
    /\ \E a, b, c \in 1..Len(elo.games) :
           /\ a < b
           /\ Scored(elo.games[a]) /\ Scored(elo.games[b]) /\ ~Scored(elo.games[c])
           /\ elo.games[a].gameday > elo.games[b].gameday
           /\ TeamsOf(elo.games[a]) \cap TeamsOf(elo.games[b]) # {}
    /\ elo.log[1].eh = DefaultRating /\ elo.log[1].ea = DefaultRating
    /\ DefaultRating \in {elo.log[2].eh, elo.log[2].ea}
    /\ elo.log[2].eh # elo.log[2].ea

RECURSIVE SumRatings(_, _)
\* The sum of the ratings of the teams of S.
SumRatings(ratings, S) ==
    IF S = {} THEN 0
    ELSE LET team == CHOOSE x \in S : TRUE
         IN  ratings[team] + SumRatings(ratings, S \ {team})

(* C26: rating conservation: at every point of a training run the ratings  *)
(* of the mapping sum to 1500 times the number of teams in it.             *)
C26_RatingConservation ==
    elo.pc \in {"loop", "done"} =>
        SumRatings(elo.ratings, DOMAIN elo.ratings)
            = DefaultRating * Cardinality(DOMAIN elo.ratings)

\* Two games over three or more teams have been applied and moved a rating.
C26_Witness ==
    /\ elo.pc = "done"
    /\ Len(elo.log) >= 2
    /\ Cardinality(DOMAIN elo.ratings) >= 3
    /\ \E team \in DOMAIN elo.ratings : elo.ratings[team] # DefaultRating
    /\ \E n \in 1..Len(elo.log) : elo.log[n].eh # DefaultRating \/ elo.log[n].ea # DefaultRating

(* Training runs one after another, as train_elo_and_predict makes them:   *)
(* a run over a history, a run over another history, and a run over the    *)
(* first history again.                                                    *)

\* What was trained in between: nothing, or a game of either pair of teams.
PriorHistories ==
    {<<>>,
     <<[home_team |-> "KC", away_team |-> "BUF", gameday |-> 1,
        home_score |-> Q(24, 1), away_score |-> Q(17, 1)]>>,
     <<[home_team |-> "SD", away_team |-> "OAK", gameday |-> 1,
        home_score |-> Q(17, 1), away_score |-> Q(24, 1)]>>}

RetrainHistories == UNION {SchedulesOfLen(n) : n \in 0..(MaxGames - 1)}

RetrainInit ==
    /\ \E h \in RetrainHistories, p \in PriorHistories :
           elo = [pc |-> "load", games |-> h, rows |-> <<>>, i |-> 1,
                  ratings |-> [t \in {} |-> 0], log |-> <<>>,
                  queue |-> <<p, h>>, returned |-> <<>>]
    /\ kelly = Idle /\ conv = Idle /\ odds = Idle /\ upd = Idle /\ roll = Idle /\ upc = Idle
    /\ reg = Idle /\ win = Idle /\ codes = Idle /\ feat = Idle /\ sheet = Idle /\ travel = Idle

\* The mapping is returned to the caller, and the caller trains again.
EloCallAgain ==
    /\ elo.pc = "done"
    /\ elo.queue # <<>>
    /\ elo' = [elo EXCEPT !.pc = "load", !.games = Head(elo.queue),
                          !.queue = Tail(elo.queue),
                          !.returned = Append(elo.returned, elo.ratings)]
    /\ UNCHANGED <<kelly, conv, odds, upd, roll, upc, reg, win, codes, feat, sheet, travel>>

RetrainNext == EloLoad \/ EloGame \/ EloReturn \/ EloCallAgain

SpecRetrain == RetrainInit /\ [][RetrainNext]_vars

\* Whether a team has been rated by the first n - 1 games of this run.
RatedBefore(team, n) ==
    \E m \in 1..(n - 1) : team \in {elo.log[m].game.home_team, elo.log[m].game.away_team}

(* C23: every training run starts from an empty mapping, reads no rating   *)
(* written by an earlier run (a team's first game of the run reads 1500),  *)
(* and the run over the first history returns the same mapping again after *)
(* whatever was trained in between.                                        *)
C23_RebuiltFromScratch ==
    /\ (elo.pc = "loop" /\ elo.i = 1) => elo.ratings = [t \in {} |-> 0]
    /\ elo.pc \in {"loop", "done"} =>
           \A n \in 1..Len(elo.log) :
               /\ ~RatedBefore(elo.log[n].game.home_team, n) => elo.log[n].eh = DefaultRating
               /\ ~RatedBefore(elo.log[n].game.away_team, n) => elo.log[n].ea = DefaultRating
    /\ (elo.pc = "done" /\ Len(elo.returned) = 2) => elo.ratings = elo.returned[1]

\* The third run has returned; the run in between rated a team of the history
\* and returned another mapping.
C23_Witness ==
    /\ elo.pc = "done" /\ Len(elo.returned) = 2
    /\ elo.ratings = elo.returned[1]
    /\ elo.returned[2] # elo.returned[1]
    /\ DOMAIN elo.returned[2] \cap DOMAIN elo.ratings # {}

(* Training over completed games that include ties, and the label the win  *)
(* classifier of training.py gives the same games.                         *)

\* <<home_score, away_score>>: a tie, a home win, an away win
TieScorePairs == {<<Q(20, 1), Q(20, 1)>>, <<Q(24, 1), Q(17, 1)>>, <<Q(17, 1), Q(24, 1)>>}

CompletedGames ==
    {[home_team |-> m[1], away_team |-> m[2], gameday |-> d, home_score |-> sc[1], away_score |-> sc[2]] :
        m \in Matchups, d \in Gamedays, sc \in TieScorePairs}

\* Schedules of completed games, no team twice on a gameday.
CompletedSchedules ==
    UNION {{gs \in [1..n -> CompletedGames] :
               \A i, j \in 1..n :
                   (i < j /\ gs[i].gameday = gs[j].gameday) => TeamsOf(gs[i]) \cap TeamsOf(gs[j]) = {}} :
           n \in 0..(MaxGames - 1)}

\* A label that counts a tie for the home team.
label_home_not_beaten(row) == IF RLe(row.away_score, row.home_score) THEN 1 ELSE 0

\* training._label_home_win
label_home_win(row) == IF RLt(row.away_score, row.home_score) THEN 1 ELSE 0

TieInit ==
    /\ \E gs \in CompletedSchedules :
           elo = [pc |-> "load", games |-> gs, rows |-> <<>>, i |-> 1,
                  ratings |-> [t \in {} |-> 0], log |-> <<>>, labels |-> <<>>]
    /\ kelly = Idle /\ conv = Idle /\ odds = Idle /\ upd = Idle /\ roll = Idle /\ upc = Idle
    /\ reg = Idle /\ win = Idle /\ codes = Idle /\ feat = Idle /\ sheet = Idle /\ travel = Idle

\* train_models: y_win = df.apply(_label_home_win, axis=1) over the completed games.
EloLabel ==
    /\ elo.pc = "done"
    /\ elo' = [elo EXCEPT !.pc = "labelled",
                          !.labels = [n \in 1..Len(elo.rows) |-> label_home_win(elo.rows[n])]]
    /\ UNCHANGED <<kelly, conv, odds, upd, roll, upc, reg, win, codes, feat, sheet, travel>>

TieNext == EloLoad \/ EloGame \/ EloReturn \/ EloLabel

SpecTieElo == TieInit /\ [][TieNext]_vars

Tied(g) == g.home_score = g.away_score

(* C30: a completed game with equal scores is scored as a home loss: the   *)
(* game just applied being a tie, the home rating is down by k times the   *)
(* expected home win probability and the away rating up by the same        *)
(* amount; the win classifier labels a tied game 0.                        *)
C30_TieIsHomeLoss ==
    /\ (elo.pc \in {"loop", "done", "labelled"} /\ elo.log # <<>> /\ Tied(elo.log[Len(elo.log)].game)) =>
           LET e == elo.log[Len(elo.log)]
               drop == RoundDiv(KFactor * expected_home_prob(e.eh, e.ea, HomeField), 1000)
           IN  /\ drop > 0
               /\ elo.ratings[e.game.home_team] = e.eh - drop
               /\ elo.ratings[e.game.away_team] = e.ea + drop
    /\ elo.pc = "labelled" =>
           \A n \in 1..Len(elo.rows) :
               /\ Tied(elo.rows[n]) => elo.labels[n] = 0
               /\ elo.labels[n] = 1 <=> RLt(elo.rows[n].away_score, elo.rows[n].home_score)

\* The last game applied was a tie between two teams rated 1500 and 1500+.
C30_Witness ==
    /\ elo.pc = "labelled"
    /\ Len(elo.log) = 2
    /\ Tied(elo.log[2].game)
    /\ elo.labels[2] = 0
    /\ elo.ratings[elo.log[2].game.home_team] < elo.log[2].eh
    /\ elo.ratings[elo.log[2].game.away_team] > elo.log[2].ea

-----------------------------------------------------------------------------
(* RollupEngine: features._team_rollups.                                   *)
(*                                                                         *)
(* The frame g is a sequence of games [season, gameday, home_team,         *)
(* away_team, home_score, away_score] in schedule order (by gameday); no   *)
(* team plays twice on one gameday, so (team, gameday) names a row of the  *)
(* team-game log and the two sorts by gameday have no ties to break.       *)

\* Rows of the frame g.
MaxRows == 3
\* rolling(5, min_periods=1)
RollWindow == 5

RollSeasons == {2023}
RollGamedays == {1, 2, 3}
RollTeams == <<"KC", "BUF", "DEN">>
RollMatchups == {<<1, 2>>, <<2, 3>>, <<3, 1>>}
RollScores == {<<NaN, NaN>>, <<Q(24, 1), Q(17, 1)>>, <<Q(10, 1), Q(20, 1)>>}

RollGames ==
    {[season |-> sn, gameday |-> d, home_team |-> RollTeams[m[1]], away_team |-> RollTeams[m[2]],
      home_score |-> sc[1], away_score |-> sc[2]] :
        sn \in RollSeasons, d \in RollGamedays, m \in RollMatchups, sc \in RollScores}

RECURSIVE FramesOfLen(_)
FramesOfLen(n) ==
    IF n = 0 THEN {<<>>}
    ELSE {Append(x[1], x[2]) : x \in
             {x \in FramesOfLen(n - 1) \X RollGames :
                 \A i \in 1..(n - 1) :
                     /\ x[1][i].gameday <= x[2].gameday
                     /\ x[1][i].gameday = x[2].gameday =>
                            {x[1][i].home_team, x[1][i].away_team}
                                \cap {x[2].home_team, x[2].away_team} = {}}}

Frames == UNION {FramesOfLen(n) : n \in 1..MaxRows}

\* Lines 21-32: the team-game log, two rows per game, with margin and played.
\* idx is the row label that pd.concat(..., ignore_index=True) gives: row i of
\* g becomes log row i (home perspective) and log row Len(g) + i (away).
TeamGameLog(g) ==
    LET row(ix, sn, d, team, opp, pf, pa) ==
            [idx |-> ix, season |-> sn, gameday |-> d, team |-> team, opp |-> opp,
             points_for |-> pf, points_against |-> pa,
             margin |-> RSub(pf, pa), played |-> IF IsNull(pf) THEN 0 ELSE 1]
    IN  {row(i, g[i].season, g[i].gameday, g[i].home_team, g[i].away_team,
             g[i].home_score, g[i].away_score) : i \in 1..Len(g)}
        \cup {row(Len(g) + i, g[i].season, g[i].gameday, g[i].away_team, g[i].home_team,
                  g[i].away_score, g[i].home_score) : i \in 1..Len(g)}

RECURSIVE SortRowsByGameday(_)
\* df.sort_values("gameday") of one (season, team) group
SortRowsByGameday(rows) ==
    IF rows = {} THEN <<>>
    ELSE LET first == CHOOSE r \in rows : \A q \in rows : r.gameday <= q.gameday
         IN  <<first>> \o SortRowsByGameday(rows \ {first})

RECURSIVE RSum(_)
RSum(vals) == IF vals = <<>> THEN Zero ELSE RAdd(Head(vals), RSum(Tail(vals)))

\* mean() of a window: over its non-null values, NaN below min_periods = 1.
MeanSkipNa(vals) ==
    LET nn == NonNull(vals)
    IN  IF nn = <<>> THEN NaN ELSE RDiv(RSum(nn), Q(Len(nn), 1))

\* s.shift().rolling(w, min_periods=1).mean() at position k (from 1): the mean
\* of the w shifted values ending at k, i.e. of rows k-w .. k-1.
ShiftRollingMean(rs, col, k, w) ==
    MeanSkipNa([i \in 1..((k - 1) - (IF k - w > 1 THEN k - w ELSE 1) + 1) |->
                   rs[(IF k - w > 1 THEN k - w ELSE 1) + i - 1][col]])

\* s.shift().expanding(min_periods=1).mean() at position k: rows 1 .. k-1.
ShiftExpandingMean(rs, col, k) == MeanSkipNa([i \in 1..(k - 1) |-> rs[i][col]])

\* played.shift().expanding(min_periods=1).sum() at position k
ShiftExpandingSum(rs, k) ==
    IF k = 1 THEN NaN ELSE RSum([i \in 1..(k - 1) |-> Q(rs[i].played, 1)])

\* Lines 38-46 of _roll: the rows rs of one group, already in gameday order,
\* each with its seven rollup columns.
RollSorted(rs) ==
    {[idx |-> rs[k].idx, season |-> rs[k].season, gameday |-> rs[k].gameday,
      team |-> rs[k].team, opp |-> rs[k].opp, points_for |-> rs[k].points_for,
      points_against |-> rs[k].points_against, margin |-> rs[k].margin,
      played |-> rs[k].played,
      pf_roll5 |-> ShiftRollingMean(rs, "points_for", k, RollWindow),
      pa_roll5 |-> ShiftRollingMean(rs, "points_against", k, RollWindow),
      mar_roll5 |-> ShiftRollingMean(rs, "margin", k, RollWindow),
      pf_szn |-> ShiftExpandingMean(rs, "points_for", k),
      pa_szn |-> ShiftExpandingMean(rs, "points_against", k),
      mar_szn |-> ShiftExpandingMean(rs, "margin", k),
      gms_szn |-> ShiftExpandingSum(rs, k)] : k \in 1..Len(rs)}

\* _roll of one group whose gamedays are distinct.
Roll(rows) == RollSorted(SortRowsByGameday(rows))

\* team_games.groupby(["season", "team"]).apply(_roll)
RollGroups(tg) ==
    UNION {Roll({r \in tg : r.season = key[1] /\ r.team = key[2]}) :
               key \in {<<r.season, r.team>> : r \in tg}}

RECURSIVE SetToSeq(_)
SetToSeq(S) == IF S = {} THEN <<>> ELSE LET x == CHOOSE y \in S : TRUE IN <<x>> \o SetToSeq(S \ {x})

\* df.groupby("season")[c].transform(mean): the mean of column c over every
\* row of the season, nulls skipped.
SeasonMean(rolled, sn, c) ==
    LET rows == SetToSeq({r \in rolled : r.season = sn})
    IN  MeanSkipNa([i \in 1..Len(rows) |-> rows[i][c]])

FillNa(x, v) == IF IsNull(x) THEN v ELSE x

\* _fill_with_league_means
FillWithLeagueMeans(rolled) ==
    {[r EXCEPT !.pf_roll5 = FillNa(@, SeasonMean(rolled, r.season, "pf_roll5")),
               !.pa_roll5 = FillNa(@, SeasonMean(rolled, r.season, "pa_roll5")),
               !.mar_roll5 = FillNa(@, SeasonMean(rolled, r.season, "mar_roll5")),
               !.pf_szn = FillNa(@, SeasonMean(rolled, r.season, "pf_szn")),
               !.pa_szn = FillNa(@, SeasonMean(rolled, r.season, "pa_szn")),
               !.mar_szn = FillNa(@, SeasonMean(rolled, r.season, "mar_szn")),
               !.gms_szn = FillNa(@, Zero)] : r \in rolled}

\* _team_rollups(g): the frame it returns, or the exception it raises.  On a
\* frame without rows groupby(...).apply(_roll) of line 49 has no group, _roll
\* is never called and no rollup column is added; _fill_with_league_means then
\* selects the column pf_roll5 (line 54), which raises KeyError.
team_rollups(g) ==
    IF Len(g) = 0 THEN [raised |-> "KeyError", out |-> {}]
    ELSE [raised |-> "none", out |-> FillWithLeagueMeans(RollGroups(TeamGameLog(g)))]

\* Where a caller of _team_rollups stands after the call: at next when it
\* returned, at "raised" when the exception left the caller.
AfterRollups(res, next) == IF res.raised = "none" THEN next ELSE "raised"

RollInit ==
    /\ roll \in [pc : {"frame"}, g : Frames, out : {{}}, edited : {0}, g2 : {<<>>}, out2 : {{}},
                 raised : {"none"}]
    /\ kelly = Idle /\ conv = Idle /\ odds = Idle /\ upd = Idle /\ elo = Idle
    /\ upc = Idle /\ reg = Idle /\ win = Idle
    /\ codes = Idle /\ feat = Idle /\ sheet = Idle /\ travel = Idle

\* team_games = _team_rollups(g)
RollBuild ==
    /\ roll.pc = "frame"
    /\ LET res == team_rollups(roll.g)
       IN  roll' = [roll EXCEPT !.pc = AfterRollups(res, "rolled"), !.out = res.out,
                                !.raised = res.raised]
    /\ UNCHANGED <<kelly, conv, odds, upd, elo, upc, reg, win, codes, feat, sheet, travel>>

\* The scores of game j change and the rollups are built again.
RollMutate ==
    /\ roll.pc = "rolled"
    /\ \E j \in 1..Len(roll.g), sc \in RollScores :
           /\ sc # <<roll.g[j].home_score, roll.g[j].away_score>>
           /\ LET g2 == [roll.g EXCEPT ![j].home_score = sc[1], ![j].away_score = sc[2]]
                  res == team_rollups(g2)
              IN  roll' = [roll EXCEPT !.pc = AfterRollups(res, "edited"), !.edited = j,
                                       !.g2 = g2, !.out2 = res.out, !.raised = res.raised]
    /\ UNCHANGED <<kelly, conv, odds, upd, elo, upc, reg, win, codes, feat, sheet, travel>>

\* Game j is removed and the rollups are built again.
RollRemove ==
    /\ roll.pc = "rolled"
    /\ \E j \in 1..Len(roll.g) :
           LET g2 == SubSeq(roll.g, 1, j - 1) \o SubSeq(roll.g, j + 1, Len(roll.g))
               res == team_rollups(g2)
           IN  roll' = [roll EXCEPT !.pc = AfterRollups(res, "edited"), !.edited = j,
                                    !.g2 = g2, !.out2 = res.out, !.raised = res.raised]
    /\ UNCHANGED <<kelly, conv, odds, upd, elo, upc, reg, win, codes, feat, sheet, travel>>

RollNext == RollBuild \/ RollMutate \/ RollRemove

SpecRollups == RollInit /\ [][RollNext]_vars

RollupCols == {"pf_roll5", "pa_roll5", "mar_roll5", "pf_szn", "pa_szn", "mar_szn", "gms_szn"}

\* The row of a team on a gameday in a rollup frame.
RowOf(out, team, d) == CHOOSE r \in out : r.team = team /\ r.gameday = d

(* C1: no leakage: for every team and rollup column the value of a row is  *)
(* unchanged when a later row of that team is mutated or removed.          *)
C1_NoLeakage ==
    roll.pc = "edited" =>
        LET e == roll.g[roll.edited]
        IN  \A r \in roll.out :
                (r.team \in {e.home_team, e.away_team} /\ r.gameday < e.gameday) =>
                    \A c \in RollupCols : RowOf(roll.out2, r.team, r.gameday)[c] = r[c]


-----------------------------------------------------------------------------
(* features.build_upcoming_with_features.                                  *)
(*                                                                         *)
(* A schedule is a frame of games together with the set of columns it      *)
(* has; the value a row holds for a column the schedule lacks is not read. *)
(* The week column is only carried along, so rows hold no week value.      *)

SchedCols == {"season", "week", "gameday", "home_team", "away_team", "home_score", "away_score"}

\* Schedules with every column, and short schedules that lack one column.
SchedColSets == {SchedCols} \cup {SchedCols \ {c} : c \in SchedCols}

UpcSchedules ==
    {[rows |-> f, cols |-> SchedCols] : f \in Frames \cup {<<>>}}
        \cup {[rows |-> f, cols |-> cs] :
                 f \in FramesOfLen(0) \cup FramesOfLen(1) \cup FramesOfLen(2),
                 cs \in SchedColSets \ {SchedCols}}

\* Lines 13-18 of _team_rollups: without both score columns the scores are
\* overwritten by NaN placeholders.
WithPlaceholders(sched) ==
    IF {"home_score", "away_score"} \subseteq sched.cols THEN sched.rows
    ELSE [i \in 1..Len(sched.rows) |->
             [sched.rows[i] EXCEPT !.home_score = NaN, !.away_score = NaN]]

\* Lines 21-28 of _team_rollups select these columns of g by name.
LogCols == {"season", "week", "gameday", "home_team", "away_team"}

\* The row of the team-game log that the left merge of lines 103-104 attaches
\* to a game: same season, gameday and team.
MergeRow(team_games, sn, d, team) ==
    CHOOSE r \in team_games : r.season = sn /\ r.gameday = d /\ r.team = team

\* Lines 85-121 for one game: the joined features, the differentials, the
\* home-field indicator, and every null float replaced by 0.0.
UpcomingRow(gm, cols, team_games) ==
    LET h == MergeRow(team_games, gm.season, gm.gameday, gm.home_team)
        a == MergeRow(team_games, gm.season, gm.gameday, gm.away_team)
        fill(x) == FillNa(x, Zero)
    IN  [season |-> gm.season, gameday |-> gm.gameday,
         home_team |-> gm.home_team, away_team |-> gm.away_team,
         home_score |-> IF "home_score" \in cols THEN fill(gm.home_score) ELSE NaN,
         away_score |-> IF "away_score" \in cols THEN fill(gm.away_score) ELSE NaN,
         home_pf_roll5 |-> fill(h.pf_roll5), home_pa_roll5 |-> fill(h.pa_roll5),
         home_mar_roll5 |-> fill(h.mar_roll5), home_pf_szn |-> fill(h.pf_szn),
         home_pa_szn |-> fill(h.pa_szn), home_mar_szn |-> fill(h.mar_szn),
         home_gms_szn |-> fill(h.gms_szn),
         away_pf_roll5 |-> fill(a.pf_roll5), away_pa_roll5 |-> fill(a.pa_roll5),
         away_mar_roll5 |-> fill(a.mar_roll5), away_pf_szn |-> fill(a.pf_szn),
         away_pa_szn |-> fill(a.pa_szn), away_mar_szn |-> fill(a.mar_szn),
         away_gms_szn |-> fill(a.gms_szn),
         roll5_pf_diff |-> fill(RSub(h.pf_roll5, a.pf_roll5)),
         roll5_pa_diff |-> fill(RSub(h.pa_roll5, a.pa_roll5)),
         roll5_mar_diff |-> fill(RSub(h.mar_roll5, a.mar_roll5)),
         szn_pf_diff |-> fill(RSub(h.pf_szn, a.pf_szn)),
         szn_pa_diff |-> fill(RSub(h.pa_szn, a.pa_szn)),
         szn_mar_diff |-> fill(RSub(h.mar_szn, a.mar_szn)),
         home_field |-> One]

\* The frame build_upcoming_with_features returns for a non-empty schedule, or
\* the exception it raises: the team-game log needs the five columns of
\* LogCols (a missing gameday is added to the copy histlike only), and the
\* merge of line 103 needs gameday in schedule_upcoming itself.
build_upcoming_with_features(sched) ==
    IF ~((LogCols \ {"gameday"}) \subseteq sched.cols) THEN [raised |-> "KeyError", out |-> <<>>]
    ELSE IF "gameday" \notin sched.cols THEN [raised |-> "KeyError", out |-> <<>>]
    ELSE LET res == team_rollups(WithPlaceholders(sched))
             team_games == res.out
         IN  IF res.raised # "none" THEN [raised |-> res.raised, out |-> <<>>]
             ELSE
             [raised |-> "none",
              out |-> [i \in 1..Len(sched.rows) |->
                          UpcomingRow(sched.rows[i], sched.cols, team_games)]]

UpcInit ==
    /\ upc \in [pc : {"schedule"}, sched : UpcSchedules, raised : {"none"}, out : {<<>>}]
    /\ kelly = Idle /\ conv = Idle /\ odds = Idle /\ upd = Idle /\ elo = Idle
    /\ roll = Idle /\ reg = Idle /\ win = Idle
    /\ codes = Idle /\ feat = Idle /\ sheet = Idle /\ travel = Idle

\* Lines 69-70: an empty schedule is returned as it is.
UpcEmpty ==
    /\ upc.pc = "schedule"
    /\ upc.sched.rows = <<>>
    /\ upc' = [upc EXCEPT !.pc = "returned"]
    /\ UNCHANGED <<kelly, conv, odds, upd, elo, roll, reg, win, codes, feat, sheet, travel>>

UpcBuild ==
    /\ upc.pc = "schedule"
    /\ upc.sched.rows # <<>>
    /\ LET res == build_upcoming_with_features(upc.sched)
       IN  upc' = [upc EXCEPT !.pc = IF res.raised = "none" THEN "returned" ELSE "raised",
                              !.raised = res.raised, !.out = res.out]
    /\ UNCHANGED <<kelly, conv, odds, upd, elo, roll, reg, win, codes, feat, sheet, travel>>

UpcNext == UpcEmpty \/ UpcBuild

SpecUpcoming == UpcInit /\ [][UpcNext]_vars

\* Game i is the first game of its season for the team on the given side.
FirstGame(rows, i, team) ==
    \A j \in 1..Len(rows) :
        (rows[j].season = rows[i].season /\ team \in {rows[j].home_team, rows[j].away_team})
            => rows[j].gameday >= rows[i].gameday

\* The season's average of a rollup column over the rows of every team.
CrossTeamAverage(rows, sn, c) == SeasonMean(RollGroups(TeamGameLog(rows)), sn, c)

FallbackCols == <<"pf_roll5", "pa_roll5", "mar_roll5", "pf_szn", "pa_szn", "mar_szn">>
HomeFallbackCols == <<"home_pf_roll5", "home_pa_roll5", "home_mar_roll5",
                      "home_pf_szn", "home_pa_szn", "home_mar_szn">>

(* C11: first-game fallback: in the features of a schedule with scores, the *)
(* home team's first game of a season has every trailing and season-to-date *)
(* metric equal to the season's cross-team average, and a metric for which  *)
(* the season has no data at all stays null instead of becoming 0.          *)
C11_FirstGameFallback ==
    (upc.pc = "returned" /\ upc.sched.cols = SchedCols) =>
        \A i \in 1..Len(upc.out) :
            FirstGame(upc.sched.rows, i, upc.out[i].home_team) =>
                \A m \in 1..Len(FallbackCols) :
                    upc.out[i][HomeFallbackCols[m]]
                        = CrossTeamAverage(upc.sched.rows, upc.out[i].season, FallbackCols[m])

-----------------------------------------------------------------------------
(* The trailing means of one team-season, as the three rollup engines      *)
(* compute them: features._roll, modeling._rolling_lastN and               *)
(* nfl_model.features.build_team_week_table._roll.                         *)

\* Games of one team in one season.
MaxSeason == 7
\* _rolling_lastN(tw, N=4)
LastN == 4
\* rolling(8, min_periods=3) and rolling(4, min_periods=2)
Roll8Window == 8
Roll8MinPeriods == 3
Roll4Window == 4
Roll4MinPeriods == 2

\* The values of one metric in the games of a team-season, in game order; NaN
\* where the game has no value.
MetricValues == {NaN, Q(10, 1), Q(24, 1)}
MetricSeries == UNION {[1..n -> MetricValues] : n \in 1..MaxSeason}

\* s.shift(1)
Shift(vals) == [k \in 1..Len(vals) |-> IF k = 1 THEN NaN ELSE vals[k - 1]]

\* s.rolling(w, min_periods=minp).mean() at position k: the mean of the
\* non-null values among the last w, NaN when fewer than minp are non-null.
RollingMean(vals, k, w, minp) ==
    LET lo == IF k - w + 1 > 1 THEN k - w + 1 ELSE 1
        nn == NonNull(SubSeq(vals, lo, k))
    IN  IF Len(nn) < minp \/ nn = <<>> THEN NaN ELSE RDiv(RSum(nn), Q(Len(nn), 1))

\* features._roll: df[c].shift().rolling(5, min_periods=1).mean()
roll5(vals) ==
    LET rs == [i \in 1..Len(vals) |-> [points_for |-> vals[i]]]
    IN  [k \in 1..Len(vals) |-> ShiftRollingMean(rs, "points_for", k, RollWindow)]

\* modeling._rolling_lastN: g[metrics].rolling(N, min_periods=1).mean().shift(1)
rolling_lastN(vals, N) == Shift([k \in 1..Len(vals) |-> RollingMean(vals, k, N, 1)])

\* A rolling mean taken without the shift: the window ends at the row itself.
team_week_roll_unshifted(vals, w, minp) ==
    [k \in 1..Len(vals) |-> RollingMean(vals, k, w, minp)]

\* build_team_week_table._roll: g[col].shift(1).rolling(w, min_periods=minp).mean()
team_week_roll(vals, w, minp) ==
    [k \in 1..Len(vals) |-> RollingMean(Shift(vals), k, w, minp)]

Engines == {"roll5", "last4", "roll8", "roll4"}

EngineWindow(e) ==
    IF e = "roll5" THEN RollWindow ELSE IF e = "last4" THEN LastN
    ELSE IF e = "roll8" THEN Roll8Window ELSE Roll4Window

WinInit ==
    /\ win \in [pc : {"series"}, vals : MetricSeries, out : {<<>>}]
    /\ kelly = Idle /\ conv = Idle /\ odds = Idle /\ upd = Idle /\ elo = Idle
    /\ roll = Idle /\ upc = Idle /\ reg = Idle
    /\ codes = Idle /\ feat = Idle /\ sheet = Idle /\ travel = Idle

WinRoll ==
    /\ win.pc = "series"
    /\ win' = [win EXCEPT !.pc = "rolled",
                          !.out = [e \in Engines |->
                                      IF e = "roll5" THEN roll5(win.vals)
                                      ELSE IF e = "last4" THEN rolling_lastN(win.vals, LastN)
                                      ELSE IF e = "roll8"
                                           THEN team_week_roll(win.vals, Roll8Window, Roll8MinPeriods)
                                      ELSE team_week_roll(win.vals, Roll4Window, Roll4MinPeriods)]]
    /\ UNCHANGED <<kelly, conv, odds, upd, elo, roll, upc, reg, codes, feat, sheet, travel>>

WinNext == WinRoll

SpecWindow == WinInit /\ [][WinNext]_vars

\* The mean of the metric over rows [max(0, k - window), k - 1] (k counted
\* from 0; from 1 here), null only when none of these rows has a value.
TrailingSpec(vals, k, w) ==
    MeanSkipNa(SubSeq(vals, IF k - w > 1 THEN k - w ELSE 1, k - 1))

(* C12: trailing window with minimum history 1: in every engine, the       *)
(* trailing mean of every row after the first is the mean of the metric    *)
(* over the previous window rows, non-null once one of them has a value.   *)
C12_TrailingWindow ==
    win.pc = "rolled" =>
        \A e \in Engines : \A k \in 2..Len(win.vals) :
            win.out[e][k] = TrailingSpec(win.vals, k, EngineWindow(e))

\* The same for the two engines that roll with min_periods=1.
C12_MinPeriodsOne ==
    win.pc = "rolled" =>
        \A e \in {"roll5", "last4"} : \A k \in 2..Len(win.vals) :
            win.out[e][k] = TrailingSpec(win.vals, k, EngineWindow(e))

\* The rolling values an engine gives for a series.
EngineOut(e, vals) ==
    IF e = "roll5" THEN roll5(vals)
    ELSE IF e = "last4" THEN rolling_lastN(vals, LastN)
    ELSE IF e = "roll8" THEN team_week_roll(vals, Roll8Window, Roll8MinPeriods)
    ELSE team_week_roll(vals, Roll4Window, Roll4MinPeriods)

(* C24: shift before roll: in _rolling_lastN and build_team_week_table the *)
(* first row of a group has a null rolling value, and the rolling value of *)
(* the row at position k is the same whatever the metric is on the rows at *)
(* positions >= k: it is computed from the rows before k only.             *)
C24_ShiftBeforeRoll ==
    win.pc = "rolled" =>
        \A e \in {"last4", "roll8", "roll4"} :
            /\ win.out[e] = EngineOut(e, win.vals)
            /\ IsNull(win.out[e][1])
            /\ \A j \in 1..Len(win.vals) : \A x \in MetricValues \ {win.vals[j]} :
                   LET other == EngineOut(e, [win.vals EXCEPT ![j] = x])
                   IN  \A k \in 1..j : other[k] = win.out[e][k]

\* Three games at 10 and a fourth at 24: the fourth row's values are 10.
C24_Witness ==
    /\ win.pc = "rolled"
    /\ Len(win.vals) >= 4
    /\ \A k \in 1..3 : win.vals[k] = Q(10, 1)
    /\ win.vals[4] = Q(24, 1)
    /\ \A e \in {"last4", "roll8", "roll4"} : win.out[e][4] = Q(10, 1) /\ IsNull(win.out[e][1])

-----------------------------------------------------------------------------
(* RegressionModel: modeling._fit_ridge and the matrix product of the      *)
(* prediction, modeling.train_and_predict_upcoming line 235.               *)
(*                                                                         *)
(* A matrix is the sequence of its rows together with its column count     *)
(* (X.shape[1], which the rows do not give when there are none).  The      *)
(* spread sigma is a square root, so the model keeps its square.           *)

\* Rows of the training matrix.
MaxTrainRows == 3
\* Column counts of the training matrix.
FeatCounts == {0, 1, 2}
\* _fit_ridge(X, y, alpha=5.0)
RidgeAlpha == 5
\* sigma = 13.5, squared: 729/4
FallbackSigmaSq == Q(729, 4)

XVals == {Zero, One}
\* Targets: two that a float64 holds exactly and 1/10, which it does not.
YVals == {Q(-3, 1), Q(1, 10), Q(7, 1)}

Dot(u, v) == RSum([i \in 1..Len(u) |-> RMul(u[i], v[i])])

Col(X, j) == [i \in 1..Len(X) |-> X[i][j]]

\* X @ w
MatVec(X, w) == [i \in 1..Len(X) |-> Dot(X[i], w)]

\* A = X.T @ X + alpha * np.eye(n_feat)
NormalMatrix(X, n_feat, alpha) ==
    [i \in 1..n_feat |-> [j \in 1..n_feat |->
        RAdd(Dot(Col(X, i), Col(X, j)), IF i = j THEN alpha ELSE Zero)]]

\* b = X.T @ y
NormalRhs(X, n_feat, y) == [i \in 1..n_feat |-> Dot(Col(X, i), y)]

RECURSIVE Solve(_, _)
\* np.linalg.solve(A, b) by elimination.  A is X'X + alpha*I with alpha > 0,
\* positive definite, so every pivot is positive and solve never raises.
Solve(A, b) ==
    IF Len(b) = 0 THEN <<>>
    ELSE LET n == Len(b)
             p == A[1][1]
             A2 == [i \in 1..(n - 1) |-> [j \in 1..(n - 1) |->
                       RSub(A[i + 1][j + 1], RDiv(RMul(A[i + 1][1], A[1][j + 1]), p))]]
             b2 == [i \in 1..(n - 1) |-> RSub(b[i + 1], RDiv(RMul(A[i + 1][1], b[1]), p))]
             rest == Solve(A2, b2)
             x1 == RDiv(RSub(b[1], RSum([j \in 1..(n - 1) |-> RMul(A[1][j + 1], rest[j])])), p)
         IN  <<x1>> \o rest

\* numpy's var(ddof): the sum of squared deviations from the mean over
\* max(n - ddof, 0); a zero divisor gives inf, or NaN for 0/0.
VarDdof(r, ddof) ==
    LET n == Len(r)
        mean == RDiv(RSum(r), Q(n, 1))
        ss == RSum([i \in 1..n |-> RMul(RSub(r[i], mean), RSub(r[i], mean))])
    IN  RDiv(ss, Q(IF n - ddof > 0 THEN n - ddof ELSE 0, 1))

\* residuals.std(ddof=max(1, n_feat)), squared
ResidualVar(residuals, n_feat) == VarDdof(residuals, IF n_feat > 1 THEN n_feat ELSE 1)

\* Whether lines 157-162 compute equal residuals and their mean without any
\* rounding, so that residuals.std(...) of equal residuals is exactly 0.0:
\* - every entry of X and of y is representable (0.1 is not: the float sum of
\*   three of them is 0.30000000000000004 and their mean is not 0.1), the
\*   normal matrix is diagonal (np.linalg.solve divides b[j] by A[j][j]) and
\*   every weight is representable: X @ w, y - X @ w, the sum of the n equal
\*   residuals and its division by n are then exact;
\* - or there are two identical rows: their residuals are the same float r
\*   and (r + r) / 2 is r.
ExactInFloats(X, n_feat, y, A, w) ==
    \/ /\ \A i \in 1..Len(y) : Representable(y[i])
       /\ \A i \in 1..Len(y), j \in 1..n_feat : Representable(X[i][j])
       /\ \A i, j \in 1..n_feat : i # j => A[i][j] = Zero
       /\ \A j \in 1..n_feat : Representable(w[j])
    \/ Len(y) = 2 /\ X[1] = X[2] /\ y[1] = y[2]

\* The square of a standard deviation of a few ulp: what residuals.std(...)
\* leaves of equal residuals when their float mean is not one of them
\* (3.8e-16 for X = [[1, 1]] * 3, y = [-3, -3, -3]).  It stands for every such
\* value: positive, finite, below every variance of the grid.
RoundingResidueSq == Q(1, 1000000)

\* Line 162, sigma = residuals.std(ddof=max(1, n_feat)), squared: the values
\* the float computation can give.  A variance that is not 0, or is undefined,
\* is kept as the exact rational; a variance of 0 is 0.0 when the computation
\* is exact, and 0.0 or a rounding residue otherwise, as the rounding of the
\* build's solve and mean falls.
SigmaSqComputed(X, n_feat, y, A, w, residuals) ==
    LET var == ResidualVar(residuals, n_feat)
    IN  IF var = Zero /\ ~ExactInFloats(X, n_feat, y, A, w)
        THEN {Zero, RoundingResidueSq}
        ELSE {var}

\* _fit_ridge: the weights w and the square of sigma, one record for every
\* value line 162 can give.
fit_ridge(X, n_feat, y, alpha) ==
    LET A == NormalMatrix(X, n_feat, alpha)
        w == Solve(A, NormalRhs(X, n_feat, y))
        Xw == MatVec(X, w)
        residuals == [i \in 1..Len(y) |-> RSub(y[i], Xw[i])]
    IN  {[w |-> w,
          sigma_sq |-> IF ~IsFinite(var) \/ RLe(var, Zero) THEN FallbackSigmaSq ELSE var] :
             var \in SigmaSqComputed(X, n_feat, y, A, w, residuals)}

TrainingData ==
    UNION {[n_feat : {f}, X : [1..n -> [1..f -> XVals]], y : [1..n -> YVals]] :
               f \in FeatCounts, n \in 0..MaxTrainRows}

FitInit ==
    /\ reg \in [pc : {"data"}, data : TrainingData, w : {<<>>}, sigma_sq : {NaN},
                x_pred : {<<>>}, pred_margin : {NaN}]
    /\ kelly = Idle /\ conv = Idle /\ odds = Idle /\ upd = Idle /\ elo = Idle
    /\ roll = Idle /\ upc = Idle /\ win = Idle
    /\ codes = Idle /\ feat = Idle /\ sheet = Idle /\ travel = Idle

\* w, sigma = _fit_ridge(X, y, alpha=5.0)
FitRidge ==
    /\ reg.pc = "data"
    /\ \E fit \in fit_ridge(reg.data.X, reg.data.n_feat, reg.data.y, Q(RidgeAlpha, 1)) :
           reg' = [reg EXCEPT !.pc = "fitted", !.w = fit.w, !.sigma_sq = fit.sigma_sq]
    /\ UNCHANGED <<kelly, conv, odds, upd, elo, roll, upc, win, codes, feat, sheet, travel>>

\* pred_margin = X_pred @ w for one row of features of the fitted width.
FitPredict ==
    /\ reg.pc = "fitted"
    /\ \E x \in [1..reg.data.n_feat -> XVals] :
           reg' = [reg EXCEPT !.pc = "predicted", !.x_pred = x, !.pred_margin = Dot(x, reg.w)]
    /\ UNCHANGED <<kelly, conv, odds, upd, elo, roll, upc, win, codes, feat, sheet, travel>>

FitNext == FitRidge \/ FitPredict

SpecFitRidge == FitInit /\ [][FitNext]_vars

(* C15: explicit bias term: the weight vector has n_features + 1 entries   *)
(* and the predicted margin of an all-zero feature vector is the bias, the *)
(* first weight.                                                           *)
C15_BiasTerm ==
    (reg.pc = "predicted" /\ \A j \in 1..Len(reg.x_pred) : reg.x_pred[j] = Zero) =>
        /\ Len(reg.w) = reg.data.n_feat + 1
        /\ reg.pred_margin = reg.w[1]

\* The residuals of the fitted weights, and their variance with divisor
\* n - max(1, n_features), undefined (NaN) unless n exceeds the adjustment.
FittedResiduals == [i \in 1..Len(reg.data.y) |-> RSub(reg.data.y[i], Dot(reg.data.X[i], reg.w))]

AdjustedVar ==
    LET r == FittedResiduals
        n == Len(r)
        d == IF reg.data.n_feat > 1 THEN reg.data.n_feat ELSE 1
    IN  IF n <= d THEN NaN
        ELSE RDiv(RSub(Dot(r, r), RDiv(RMul(RSum(r), RSum(r)), Q(n, 1))), Q(n - d, 1))

(* C16: residual-spread floor: the spread returned by _fit_ridge is finite *)
(* and strictly positive; it is the residual standard deviation with       *)
(* degrees-of-freedom adjustment max(1, n_features) when that is finite    *)
(* and positive, and the fallback 13.5 in every other case.                *)
C16_SpreadFloor ==
    reg.pc \in {"fitted", "predicted"} =>
        /\ IsFinite(reg.sigma_sq) /\ RLt(Zero, reg.sigma_sq)
        /\ reg.sigma_sq = IF IsFinite(AdjustedVar) /\ RLt(Zero, AdjustedVar)
                          THEN AdjustedVar ELSE FallbackSigmaSq

\* What holds of the returned spread for every outcome of the rounding: it
\* is finite and positive, it is the residual variance with the adjusted
\* divisor when that is positive, and it is the fallback when the adjustment
\* uses up the rows.
C16_PositiveAndFloorWhenUndefined ==
    reg.pc \in {"fitted", "predicted"} =>
        /\ IsFinite(reg.sigma_sq) /\ RLt(Zero, reg.sigma_sq)
        /\ IsFinite(AdjustedVar) /\ RLt(Zero, AdjustedVar) => reg.sigma_sq = AdjustedVar
        /\ ~IsFinite(AdjustedVar) => reg.sigma_sq = FallbackSigmaSq

\* Equal residuals can return the fallback: whenever the computation is exact,
\* and in the other cases when the rounding leaves a deviation of 0.0.
C16_EqualResidualsCanFloor ==
    (reg.pc \in {"fitted", "predicted"} /\ AdjustedVar = Zero) =>
        reg.sigma_sq \in {FallbackSigmaSq, RoundingResidueSq}

-----------------------------------------------------------------------------
(* RegressionModel: modeling._make_training_table and                      *)
(* modeling.train_and_predict_upcoming.                                    *)
(*                                                                         *)
(* A frame is the ordered list of its column names and its rows.  A column *)
(* name is a triple <<prefix, name, suffix>>, so that f"home_{c}" and      *)
(* f"diff_{base}_last4" can be built and startswith/endswith tested; a     *)
(* plain name has an empty prefix and suffix.  Training schedule and       *)
(* team-week table cover one week of one season, so the merge key          *)
(* (season, week, team) is the team.                                       *)

\* Games of the training schedule.
MaxSchedGames == 2

BaseNames == <<"epa_per_play", "pass_epa", "rush_epa", "success_rate",
               "epa_allowed", "pass_epa_allowed", "rush_epa_allowed", "success_allowed">>

Plain(name) == <<"", name, "">>
Last4(side, base) == <<side, base, "last4">>

InCols(c, cols) == \E i \in 1..Len(cols) : cols[i] = c

Without(cols, c) == SelectSeq(cols, LAMBDA x : x # c)

\* need_sched
NeedSched == {Plain("season"), Plain("week"), Plain("home_team"), Plain("away_team"),
              Plain("home_score"), Plain("away_score")}

\* The columns of nfl.import_schedules / schedule.csv that the code reads.
ScheduleCols == <<Plain("game_id"), Plain("season"), Plain("week"), Plain("gameday"),
                  Plain("home_team"), Plain("away_team"), Plain("home_score"), Plain("away_score")>>

TpTeams == {"KC", "BUF"}

\* The last4 values of the eight metrics of one team-week: no history, or
\* one of two histories.
NoHistory == [i \in 1..Len(BaseNames) |-> NaN]
HistoryA == [i \in 1..Len(BaseNames) |-> Q(i, 10)]
HistoryB == [i \in 1..Len(BaseNames) |-> Q(1, 10)]

\* tw after _rolling_lastN: for every team the eight <metric>_last4 values.
TeamWeekTables == [TpTeams -> {NoHistory, HistoryA, HistoryB}]

TpScores == {<<NaN, NaN>>, <<Q(24, 1), Q(17, 1)>>, <<Q(10, 1), Q(20, 1)>>}

TpGames ==
    {[season |-> 2023, week |-> 1, home_team |-> m[1], away_team |-> m[2],
      home_score |-> sc[1], away_score |-> sc[2]] :
        m \in {<<"KC", "BUF">>, <<"BUF", "KC">>}, sc \in TpScores}

\* all_sched: with every column, or a short one that lacks a needed column.
TrainSchedules ==
    {[cols |-> ScheduleCols, rows |-> r] :
        r \in UNION {[1..n -> TpGames] : n \in 0..MaxSchedGames}}
    \cup {[cols |-> Without(ScheduleCols, c), rows |-> r] :
             c \in NeedSched, r \in UNION {[1..n -> TpGames] : n \in 0..1}}

\* left.merge(hf).merge(af): the columns of the left frame, then home_<c> and
\* away_<c> for the last4 columns of tw; a name that both sides have gets
\* the suffixes _x (left) and _y (right).
MergeCols(left_cols) ==
    LET right(side) == [i \in 1..Len(BaseNames) |-> Last4(side, BaseNames[i])]
        merge(l, r) ==
            [i \in 1..Len(l) |-> IF InCols(l[i], r) THEN <<l[i][1], l[i][2], "last4_x">> ELSE l[i]]
            \o [i \in 1..Len(r) |-> IF InCols(r[i], l) THEN <<r[i][1], r[i][2], "last4_y">> ELSE r[i]]
    IN  merge(merge(left_cols, right("home")), right("away"))

\* The base metrics for which both home_<base>_last4 and away_<base>_last4
\* are columns (lines 129-133 and 223-230), in the order of base_names.
DiffBases(cols) ==
    SelectSeq([i \in 1..Len(BaseNames) |-> i],
              LAMBDA i : InCols(Last4("home", BaseNames[i]), cols)
                         /\ InCols(Last4("away", BaseNames[i]), cols))

RAbs(x) == <<Abs(x[1]), x[2]>>

\* _make_training_table: the exception raised, or the frame hist returned:
\* its columns and, per kept game, the row of X (column _X) and the margin
\* (column _y).  feats is the list of differentials that X was built from.
make_training_table(sched, tw) ==
    IF ~(NeedSched \subseteq {sched.cols[i] : i \in 1..Len(sched.cols)})
    THEN [raised |-> "ValueError", cols |-> <<>>, feats |-> <<>>, rows |-> <<>>]
    ELSE LET hist == SelectSeq(sched.rows,
                         LAMBDA g : ~IsNull(g.home_score) /\ ~IsNull(g.away_score))
             cols == MergeCols(sched.cols \o <<Plain("margin")>>)
             bases == DiffBases(cols)
             xrow(g) == [j \in 1..Len(bases) |->
                            FillNa(RSub(tw[g.home_team][bases[j]], tw[g.away_team][bases[j]]), Zero)]
             mask(g) == RLt(Zero, RSum([j \in 1..Len(bases) |-> RAbs(xrow(g)[j])]))
             kept == SelectSeq(hist, mask)
         IN  [raised |-> "none",
              cols |-> cols \o <<Plain("_X"), Plain("_y")>>,
              feats |-> [j \in 1..Len(bases) |-> <<"diff", BaseNames[bases[j]], "last4">>],
              rows |-> [i \in 1..Len(kept) |->
                           [_X |-> xrow(kept[i]),
                            _y |-> RSub(kept[i].home_score, kept[i].away_score)]]]

\* schedule.csv: its columns are those of a schedule, possibly without week,
\* possibly with one more column whose name is that of a merged feature; it
\* has at most one game, played before today, today or later, or undated.
CachedSchedules ==
    {[cols |-> cs, rows |-> r] :
        cs \in {ScheduleCols, Without(ScheduleCols, Plain("week")),
                ScheduleCols \o <<Last4("home", "epa_per_play")>>},
        r \in {<<>>} \cup
              {<<[season |-> 2023, week |-> 1, home_team |-> "KC", away_team |-> "BUF",
                  gameday |-> d]>> : d \in {"past", "upcoming", "NaT"}}}

\* Lines 197-198: the columns of train_tab named diff_..._last4, and the
\* matrix of their values.  No other column of train_tab holds numbers that
\* the selection could pick up, so a selected cell is read from the row.
DiffCols(train_tab) ==
    SelectSeq(train_tab.cols, LAMBDA c : c[1] = "diff" /\ c[3] = "last4")

TrainMatrix(train_tab) ==
    [i \in 1..Len(train_tab.rows) |->
        [j \in 1..Len(DiffCols(train_tab)) |-> train_tab.rows[i][DiffCols(train_tab)[j][2]]]]

\* Lines 205-234: the upcoming games of schedule.csv, merged with tw, as the
\* matrix X_pred: one column per base metric, the differential where both
\* merged columns exist and the scalar 0.0 where not, nulls replaced by 0.
PredictionMatrix(sched, tw) ==
    LET games == SelectSeq(sched.rows, LAMBDA g : g.gameday \in {"NaT", "upcoming"})
        bases == DiffBases(MergeCols(sched.cols))
        has(i) == \E j \in 1..Len(bases) : bases[j] = i
    IN  [raised |-> IF bases = <<>> THEN "ValueError" ELSE "none",
         missing |-> {i \in 1..Len(BaseNames) : ~has(i)},
         width |-> Len(BaseNames),
         rows |-> [k \in 1..Len(games) |->
                      [i \in 1..Len(BaseNames) |->
                          IF has(i)
                          THEN FillNa(RSub(tw[games[k].home_team][i], tw[games[k].away_team][i]), Zero)
                          ELSE Zero]]]

TpInit ==
    /\ reg \in [pc : {"start"}, sched : CachedSchedules, all_sched : TrainSchedules,
                tw : TeamWeekTables, feats : {<<>>}, n_feat : {0}, w : {<<>>},
                sigma_sq : {NaN}, X_pred : {[width |-> 0, rows |-> <<>>]}, missing : {{}},
                pred_margin : {<<>>}, raised : {"none"}]
    /\ kelly = Idle /\ conv = Idle /\ odds = Idle /\ upd = Idle /\ elo = Idle
    /\ roll = Idle /\ upc = Idle /\ win = Idle
    /\ codes = Idle /\ feat = Idle /\ sheet = Idle /\ travel = Idle

\* Lines 180-185: schedule.csv needs season and week, and a season to end the
\* training window (int() of the maximum of no seasons raises).
TpLoad ==
    /\ reg.pc = "start"
    /\ reg' = IF ~InCols(Plain("season"), reg.sched.cols) \/ ~InCols(Plain("week"), reg.sched.cols)
                 \/ reg.sched.rows = <<>>
              THEN [reg EXCEPT !.pc = "raised", !.raised = "ValueError"]
              ELSE [reg EXCEPT !.pc = "loaded"]
    /\ UNCHANGED <<kelly, conv, odds, upd, elo, roll, upc, win, codes, feat, sheet, travel>>

\* Lines 194-202: the training table, X, y and the fit.
TpTrain ==
    /\ reg.pc = "loaded"
    /\ LET train_tab == make_training_table(reg.all_sched, reg.tw)
           X == TrainMatrix(train_tab)
           y == [i \in 1..Len(train_tab.rows) |-> train_tab.rows[i]._y]
           n_feat == Len(DiffCols(train_tab))
       IN  IF train_tab.raised # "none"
           THEN reg' = [reg EXCEPT !.pc = "raised", !.raised = train_tab.raised]
           ELSE \E fit \in fit_ridge(X, n_feat, y, Q(RidgeAlpha, 1)) :
                    reg' = [reg EXCEPT !.pc = "fitted", !.feats = train_tab.feats,
                                       !.n_feat = n_feat, !.w = fit.w,
                                       !.sigma_sq = fit.sigma_sq]
    /\ UNCHANGED <<kelly, conv, odds, upd, elo, roll, upc, win, codes, feat, sheet, travel>>

\* Lines 205-234: X_pred.
TpFeatures ==
    /\ reg.pc = "fitted"
    /\ LET xp == PredictionMatrix(reg.sched, reg.tw)
       IN  reg' = IF xp.raised # "none"
                  THEN [reg EXCEPT !.pc = "raised", !.raised = xp.raised]
                  ELSE [reg EXCEPT !.pc = "xpred", !.missing = xp.missing,
                                   !.X_pred = [width |-> xp.width, rows |-> xp.rows]]
    /\ UNCHANGED <<kelly, conv, odds, upd, elo, roll, upc, win, codes, feat, sheet, travel>>

\* Line 235: pred_margin = X_pred @ w, defined when w has one entry per
\* column of X_pred.
TpPredict ==
    /\ reg.pc = "xpred"
    /\ reg' = IF reg.X_pred.width # Len(reg.w)
              THEN [reg EXCEPT !.pc = "raised", !.raised = "ValueError"]
              ELSE [reg EXCEPT !.pc = "predicted", !.pred_margin = MatVec(reg.X_pred.rows, reg.w)]
    /\ UNCHANGED <<kelly, conv, odds, upd, elo, roll, upc, win, codes, feat, sheet, travel>>

TpNext == TpLoad \/ TpTrain \/ TpFeatures \/ TpPredict

SpecTrainPredict == TpInit /\ [][TpNext]_vars

(* C13: prediction fails fast on a missing feature: X_pred is not built    *)
(* when a differential that the training table was built from has no       *)
(* columns in the prediction-time data.                                    *)
C13_FailFastOnMissingFeature ==
    reg.pc = "xpred" =>
        \A i \in reg.missing : ~InCols(<<"diff", BaseNames[i], "last4">>, reg.feats)

(* C14: feature alignment between fit and predict: the training matrix has *)
(* one column per differential built by _make_training_table, and the      *)
(* fitted weight vector has one weight per column of X_pred.               *)
C14_FeatureAlignment ==
    reg.pc = "xpred" =>
        /\ reg.n_feat = Len(reg.feats)
        /\ Len(reg.w) = reg.X_pred.width

\* The schedule columns a computation may require.
RequiredCols == {"season", "week", "home_team", "away_team", "home_score", "away_score"}

(* C17: a missing required schedule column is fatal: the features of a     *)
(* non-empty schedule that lacks one of season, week, home_team,           *)
(* away_team, home_score, away_score are not returned, an error is raised. *)
C17_MissingColumnFatal ==
    (upc.pc \in {"returned", "raised"} /\ upc.sched.rows # <<>>
        /\ ~(RequiredCols \subseteq upc.sched.cols)) => upc.pc = "raised"

\* The same for the training table: it is built only from a schedule that
\* has the six columns.
C17_TrainingTableRaises ==
    reg.pc \in {"fitted", "xpred", "predicted"} =>
        NeedSched \subseteq {reg.all_sched.cols[i] : i \in 1..Len(reg.all_sched.cols)}

-----------------------------------------------------------------------------
(* TeamGameLogBuilder: the team-game log inside features._team_rollups,    *)
(* for schedules whose games may carry one score without the other (the    *)
(* two scores of a GameRecord are optional one by one).                    *)

LogScores == RollScores \cup {<<Q(24, 1), NaN>>, <<NaN, Q(17, 1)>>}

LogGames ==
    {[season |-> sn, gameday |-> d, home_team |-> RollTeams[m[1]], away_team |-> RollTeams[m[2]],
      home_score |-> sc[1], away_score |-> sc[2]] :
        sn \in RollSeasons, d \in RollGamedays, m \in RollMatchups, sc \in LogScores}

\* Schedules of one game, or of two games on different days.
LogFrames ==
    {<<a>> : a \in LogGames}
        \cup {<<x[1], x[2]>> : x \in {y \in LogGames \X LogGames : y[1].gameday < y[2].gameday}}

LogInit ==
    /\ roll \in [pc : {"frame"}, g : LogFrames, out : {{}}, edited : {0}, g2 : {<<>>}, out2 : {{}},
                 raised : {"none"}]
    /\ kelly = Idle /\ conv = Idle /\ odds = Idle /\ upd = Idle /\ elo = Idle
    /\ upc = Idle /\ reg = Idle /\ win = Idle
    /\ codes = Idle /\ feat = Idle /\ sheet = Idle /\ travel = Idle

LogNext == RollBuild

SpecTeamGameLog == LogInit /\ [][LogNext]_vars

\* The log row with a given label.
LogRow(out, ix) == CHOOSE r \in out : r.idx = ix

\* Two rows per game, the home and the away perspective, with team/opp and
\* points_for/points_against swapped.
TwoRowsPerGame ==
    /\ Cardinality(roll.out) = 2 * Len(roll.g)
    /\ \A i \in 1..Len(roll.g) :
           \E h \in roll.out, a \in roll.out :
               /\ h.idx = i /\ a.idx = Len(roll.g) + i
               /\ h.team = roll.g[i].home_team /\ h.opp = roll.g[i].away_team
               /\ h.points_for = roll.g[i].home_score /\ h.points_against = roll.g[i].away_score
               /\ a.team = h.opp /\ a.opp = h.team
               /\ a.points_for = h.points_against /\ a.points_against = h.points_for

\* Both rows of a game without scores are null and not played.
UnscoredRowsNull ==
    \A i \in 1..Len(roll.g) :
        (IsNull(roll.g[i].home_score) /\ IsNull(roll.g[i].away_score)) =>
            \A r \in {LogRow(roll.out, i), LogRow(roll.out, Len(roll.g) + i)} :
                /\ IsNull(r.points_for) /\ IsNull(r.points_against) /\ IsNull(r.margin)
                /\ r.played = 0

(* C18: the team-game log has exactly two rows per game, the home and the  *)
(* away perspective with team/opp and points_for/points_against swapped;   *)
(* the rows of a game without scores are null with played = false; every   *)
(* row with played = true has a non-null margin.                           *)
C18_TeamGameLog ==
    roll.pc = "rolled" =>
        /\ TwoRowsPerGame
        /\ UnscoredRowsNull
        /\ \A r \in roll.out : r.played = 1 => ~IsNull(r.margin)

\* The first two parts alone.
C18_RowsAndNulls == roll.pc = "rolled" => (TwoRowsPerGame /\ UnscoredRowsNull)

-----------------------------------------------------------------------------
(* features._team_rollups on schedules in which a team has two games with  *)
(* one gameday, as when build_upcoming_with_features gives every row of a  *)
(* schedule without gameday the same date (lines 80-81).  The only sort    *)
(* keys are (team, gameday) and gameday; _roll sorts with pandas' default  *)
(* quicksort, not a stable sort, so rows of one gameday may come out of it *)
(* in any order.                                                           *)

TieGamedays == {1, 2}

TieGames ==
    {[season |-> sn, gameday |-> d, home_team |-> RollTeams[m[1]], away_team |-> RollTeams[m[2]],
      home_score |-> sc[1], away_score |-> sc[2]] :
        sn \in RollSeasons, d \in TieGamedays, m \in RollMatchups, sc \in RollScores}

\* Schedules of two different games; any two games share a team.
TieFrames == {<<x[1], x[2]>> : x \in {y \in TieGames \X TieGames : y[1] # y[2]}}

RECURSIVE RolledFrames(_, _)
\* groupby(["season", "team"]).apply(_roll): every frame that the groups of
\* the given keys can give, one order of tied rows chosen per group.
RolledFrames(tg, keys) ==
    IF keys = {} THEN {{}}
    ELSE LET key == CHOOSE k \in keys : TRUE
             group == SetToSeq({r \in tg : r.season = key[1] /\ r.team = key[2]})
         IN  {RollSorted(x[1]) \cup x[2] :
                 x \in SortedByGameday(group) \X RolledFrames(tg, keys \ {key})}

\* The outcomes _team_rollups can have for g: the frames it can return, or,
\* for a frame without rows, the KeyError of line 54.
team_rollups_outcomes(g) ==
    IF Len(g) = 0 THEN {[raised |-> "KeyError", out |-> {}]}
    ELSE {[raised |-> "none", out |-> FillWithLeagueMeans(rolled)] :
             rolled \in RolledFrames(TeamGameLog(g),
                                     {<<r.season, r.team>> : r \in TeamGameLog(g)})}

OrdInit ==
    /\ roll \in [pc : {"frame"}, g : TieFrames, out : {{}}, edited : {<<>>}, g2 : {<<>>},
                 out2 : {{}}, raised : {"none"}]
    /\ kelly = Idle /\ conv = Idle /\ odds = Idle /\ upd = Idle /\ elo = Idle
    /\ upc = Idle /\ reg = Idle /\ win = Idle
    /\ codes = Idle /\ feat = Idle /\ sheet = Idle /\ travel = Idle

\* team_games = _team_rollups(g)
OrdBuild ==
    /\ roll.pc = "frame"
    /\ \E res \in team_rollups_outcomes(roll.g) :
           roll' = [roll EXCEPT !.pc = AfterRollups(res, "rolled"), !.out = res.out,
                                !.raised = res.raised]
    /\ UNCHANGED <<kelly, conv, odds, upd, elo, upc, reg, win, codes, feat, sheet, travel>>

\* The rows of g are given in another order, row i of g2 being row f[i] of
\* g, and the rollups are built again.
OrdPermute ==
    /\ roll.pc = "rolled"
    /\ \E f \in Perms(Len(roll.g)) :
           /\ \E i \in 1..Len(roll.g) : f[i] # i
           /\ LET g2 == [i \in 1..Len(roll.g) |-> roll.g[f[i]]]
              IN  \E res \in team_rollups_outcomes(g2) :
                      roll' = [roll EXCEPT !.pc = AfterRollups(res, "edited"), !.edited = f,
                                           !.g2 = g2, !.out2 = res.out, !.raised = res.raised]
    /\ UNCHANGED <<kelly, conv, odds, upd, elo, upc, reg, win, codes, feat, sheet, travel>>

OrdNext == OrdBuild \/ OrdPermute

SpecRollupOrder == OrdInit /\ [][OrdNext]_vars

\* Every rollup value of both rows of every game is the same in out2 as in
\* out.
SameRollups ==
    LET n == Len(roll.g)
    IN  \A i \in 1..n : \A c \in RollupCols :
            /\ LogRow(roll.out2, i)[c] = LogRow(roll.out, roll.edited[i])[c]
            /\ LogRow(roll.out2, n + i)[c] = LogRow(roll.out, n + roll.edited[i])[c]

\* Some team has two games on one gameday.
HasTie(g) ==
    \E i, j \in 1..Len(g) :
        /\ i # j /\ g[i].gameday = g[j].gameday
        /\ {g[i].home_team, g[i].away_team} \cap {g[j].home_team, g[j].away_team} # {}

(* C19: rollup results do not depend on input row order: any permutation   *)
(* of the rows of a schedule, tied gamedays included, gives the same       *)
(* rollup values for every game.                                           *)
C19_OrderIndependence == roll.pc = "edited" => SameRollups

\* The same for schedules without a tie.
C19_NoTieOrderFree == (roll.pc = "edited" /\ ~HasTie(roll.g)) => SameRollups

-----------------------------------------------------------------------------
(* Team codes: the normalizers applied to the team columns before a join.  *)
(*                                                                         *)
(* A record of one franchise comes from each of two sources; each source   *)
(* passes its team code through its own normalizer, and the join matches   *)
(* the two records when the normalized codes are equal.                    *)

\* Team codes as the sources spell them: legacy, current, lower case, padded.
RawCodes == {"LA", "STL", "SD", "OAK", "WSH", "LAR", "LAC", "LV", "WAS", "KC", "la", " LA"}

\* str.strip and str.upper on the codes above.
Strip(t) == IF t = " LA" THEN "LA" ELSE t
Upper(t) == IF t = "la" THEN "LA" ELSE t

\* scripts/fetch_and_build.py: s.replace({LA: LAR, STL: LAR, SD: LAC, OAK: LV, WSH: WAS})
norm_codes(t) ==
    IF t \in {"LA", "STL"} THEN "LAR" ELSE IF t = "SD" THEN "LAC"
    ELSE IF t = "OAK" THEN "LV" ELSE IF t = "WSH" THEN "WAS" ELSE t

\* nfl_model/odds.py: TEAM_FIX.get(t.strip().upper(), t.strip().upper())
norm_team(t) == fix_abbr(Upper(Strip(t)))

\* streamlit_app.py, load_pick_sheet: replace({LA: LAR, SD: LAC, OAK: LV})
pick_sheet_codes(t) ==
    IF t = "LA" THEN "LAR" ELSE IF t = "SD" THEN "LAC" ELSE IF t = "OAK" THEN "LV" ELSE t

Normalizers == {"norm_codes", "norm_team", "load_pick_sheet", "fix_abbr"}

Normalize(n, t) ==
    IF n = "norm_codes" THEN norm_codes(t)
    ELSE IF n = "norm_team" THEN norm_team(t)
    ELSE IF n = "load_pick_sheet" THEN pick_sheet_codes(t)
    ELSE fix_abbr(t)

CodesInit ==
    /\ codes \in [pc : {"raw"}, left : RawCodes, right : RawCodes,
                  left_norm : Normalizers, right_norm : Normalizers,
                  left_code : {""}, right_code : {""}, matched : {FALSE}]
    /\ kelly = Idle /\ conv = Idle /\ odds = Idle /\ upd = Idle /\ elo = Idle /\ roll = Idle
    /\ upc = Idle /\ reg = Idle /\ win = Idle /\ feat = Idle /\ sheet = Idle /\ travel = Idle

\* Each source normalizes the team column of its frame.
CodesNormalize ==
    /\ codes.pc = "raw"
    /\ codes' = [codes EXCEPT !.pc = "normalized",
                              !.left_code = Normalize(codes.left_norm, codes.left),
                              !.right_code = Normalize(codes.right_norm, codes.right)]
    /\ UNCHANGED <<kelly, conv, odds, upd, elo, roll, upc, reg, win, feat, sheet, travel>>

\* The merge on the team column: the records match when the codes are equal.
CodesJoin ==
    /\ codes.pc = "normalized"
    /\ codes' = [codes EXCEPT !.pc = "joined", !.matched = (codes.left_code = codes.right_code)]
    /\ UNCHANGED <<kelly, conv, odds, upd, elo, roll, upc, reg, win, feat, sheet, travel>>

CodesNext == CodesNormalize \/ CodesJoin

SpecTeamCodes == CodesInit /\ [][CodesNext]_vars

\* The canonical code of a spelling: every alias that some normalizer handles.
Canonical(t) == norm_codes(Upper(Strip(t)))

(* C22: every normalizer maps each alias to the same canonical code, so    *)
(* two records of one franchise carry equal codes when they are joined,    *)
(* whichever sources they come from.                                       *)
C22_CanonicalCodes ==
    (codes.pc = "joined" /\ Canonical(codes.left) = Canonical(codes.right)) =>
        /\ codes.left_code = Canonical(codes.left)
        /\ codes.right_code = Canonical(codes.right)
        /\ codes.matched

\* The aliases every normalizer has in its table are mapped alike by all.
C22_SharedAliases ==
    (codes.pc = "joined" /\ codes.left = codes.right /\ codes.left \in {"LA", "SD", "OAK", "LAR", "LAC", "LV", "KC"}) =>
        codes.matched /\ codes.left_code = Canonical(codes.left)

-----------------------------------------------------------------------------
(* FeatureBuilder: nfl_model/features.build_team_week_table and            *)
(* make_game_feature_rows, as build_training_and_upcoming calls them on    *)
(* the schedule of one season.                                             *)
(*                                                                         *)
(* A game is [game_id, season, week, home_team, away_team] with the        *)
(* off_epa_per_play of its two teams (the team_game table, keyed by        *)
(* game_id and team).  The game at position i is the game of week i, so a  *)
(* team has one game a week and the sort by (team, season, week) has no    *)
(* ties.  The other three metrics pass through the same code as this one.  *)

\* Games of the schedule.
MaxFeatGames == 4

FeatTeams == <<"BUF", "KC">>
FeatEpa == {Q(10, 1), Q(24, 1)}

FeatGame(i, home, epa) ==
    [game_id |-> i, season |-> 2023, week |-> i,
     home_team |-> home, away_team |-> IF home = "KC" THEN "BUF" ELSE "KC",
     home_epa |-> epa, away_epa |-> Q(10, 1)]

FeatSchedules ==
    UNION {{[i \in 1..n |-> FeatGame(i, h[i], e[i])] :
               h \in [1..n -> {"BUF", "KC"}], e \in [1..n -> FeatEpa]} : n \in 0..MaxFeatGames}

RECURSIVE TeamGames(_, _)
\* The rows of one team in the exploded schedule, with the team's metric,
\* in week order.
TeamGames(sched, team) ==
    IF sched = <<>> THEN <<>>
    ELSE LET g == sched[Len(sched)]
         IN  TeamGames(SubSeq(sched, 1, Len(sched) - 1), team)
                 \o <<[game_id |-> g.game_id, season |-> g.season, week |-> g.week,
                       team |-> team,
                       opp |-> IF g.home_team = team THEN g.away_team ELSE g.home_team,
                       is_home |-> IF g.home_team = team THEN 1 ELSE 0,
                       off_epa_per_play |->
                           IF g.home_team = team THEN g.home_epa ELSE g.away_epa]>>

\* _roll on the group of one team and season.
TeamWeekGroup(rows) ==
    LET vals == [k \in 1..Len(rows) |-> rows[k].off_epa_per_play]
        r8 == team_week_roll(vals, Roll8Window, Roll8MinPeriods)
        r4 == team_week_roll(vals, Roll4Window, Roll4MinPeriods)
    IN  [k \in 1..Len(rows) |->
            [game_id |-> rows[k].game_id, season |-> rows[k].season, week |-> rows[k].week,
             team |-> rows[k].team, opp |-> rows[k].opp, is_home |-> rows[k].is_home,
             off_epa_per_play |-> rows[k].off_epa_per_play,
             off_epa_per_play_roll8 |-> r8[k], off_epa_per_play_roll4 |-> r4[k]]]

\* The team-week table: two rows per game, sorted by (team, season, week),
\* rolled per (team, season).
build_team_week_table(sched) ==
    IF sched = <<>> THEN <<>>
    ELSE TeamWeekGroup(TeamGames(sched, FeatTeams[1]))
             \o TeamWeekGroup(TeamGames(sched, FeatTeams[2]))

RECURSIVE SelectTeam(_, _)
\* The rows of tw whose team is the given one, in the order of tw.
SelectTeam(tw, team) ==
    IF tw = <<>> THEN <<>>
    ELSE (IF Head(tw).team = team THEN <<Head(tw)>> ELSE <<>>) \o SelectTeam(Tail(tw), team)

\* base.merge(home.drop(columns=[season, week]), on=home_team, how=left) for
\* one row of base: one output row per row of tw with that team, one row of
\* nulls when there is none.
MergeHome(b, tw) ==
    LET m == SelectTeam(tw, b.home_team)
    IN  IF m = <<>>
        THEN <<[game_id |-> b.game_id, season |-> b.season, week |-> b.week,
                home_team |-> b.home_team, away_team |-> b.away_team,
                home_off_epp8 |-> NaN, home_off_epp4 |-> NaN]>>
        ELSE [k \in 1..Len(m) |->
                 [game_id |-> b.game_id, season |-> b.season, week |-> b.week,
                  home_team |-> b.home_team, away_team |-> b.away_team,
                  home_off_epp8 |-> m[k].off_epa_per_play_roll8,
                  home_off_epp4 |-> m[k].off_epa_per_play_roll4]]

\* .merge(away.drop(columns=[season, week]), on=away_team, how=left) for one
\* row, then x_epa_off and the fall back of the 8-game value to the 4-game.
MergeAway(b, tw) ==
    LET m == SelectTeam(tw, b.away_team)
        row(a8, a4) ==
            [game_id |-> b.game_id, season |-> b.season, week |-> b.week,
             home_team |-> b.home_team, away_team |-> b.away_team,
             home_off_epp8 |-> FillNa(b.home_off_epp8, b.home_off_epp4),
             home_off_epp4 |-> b.home_off_epp4,
             away_off_epp8 |-> FillNa(a8, a4), away_off_epp4 |-> a4,
             x_epa_off |-> RSub(b.home_off_epp8, a8)]
    IN  IF m = <<>> THEN <<row(NaN, NaN)>>
        ELSE [k \in 1..Len(m) |->
                 row(m[k].off_epa_per_play_roll8, m[k].off_epa_per_play_roll4)]

RECURSIVE Flatten(_)
Flatten(ss) == IF ss = <<>> THEN <<>> ELSE Head(ss) \o Flatten(Tail(ss))

make_game_feature_rows(sched_any, tw) ==
    IF sched_any = <<>> \/ tw = <<>> THEN <<>>
    ELSE LET withHome == Flatten([i \in 1..Len(sched_any) |-> MergeHome(sched_any[i], tw)])
         IN  Flatten([i \in 1..Len(withHome) |-> MergeAway(withHome[i], tw)])

FeatInit ==
    /\ feat \in [pc : {"sched"}, sched : FeatSchedules, tw : {<<>>}, out : {<<>>}]
    /\ kelly = Idle /\ conv = Idle /\ odds = Idle /\ upd = Idle /\ elo = Idle /\ roll = Idle
    /\ upc = Idle /\ reg = Idle /\ win = Idle /\ codes = Idle /\ sheet = Idle /\ travel = Idle

\* build_training_and_upcoming lines 220-221.
FeatBuild ==
    /\ feat.pc = "sched"
    /\ LET tw == build_team_week_table(feat.sched)
       IN  feat' = [feat EXCEPT !.pc = "done", !.tw = tw,
                                !.out = make_game_feature_rows(feat.sched, tw)]
    /\ UNCHANGED <<kelly, conv, odds, upd, elo, roll, upc, reg, win, codes, sheet, travel>>

FeatNext == FeatBuild

SpecGameFeatures == FeatInit /\ [][FeatNext]_vars

\* The team-week row of a team for a season and week.
TeamWeekRow(tw, team, season, week) ==
    CHOOSE r \in Range(tw) : r.team = team /\ r.season = season /\ r.week = week

(* C25: make_game_feature_rows returns one row per game of sched_any, in   *)
(* the order of the schedule, and the home and away rolling stats of a row *)
(* are those of the team's team-week row of the game's own season and      *)
(* week.                                                                   *)
C25_OneRowPerGame ==
    feat.pc = "done" =>
        /\ Len(feat.out) = Len(feat.sched)
        /\ \A i \in 1..Len(feat.out) :
               LET g == feat.sched[i]
                   h == TeamWeekRow(feat.tw, g.home_team, g.season, g.week)
                   a == TeamWeekRow(feat.tw, g.away_team, g.season, g.week)
               IN  /\ feat.out[i].game_id = g.game_id
                   /\ feat.out[i].home_off_epp4 = h.off_epa_per_play_roll4
                   /\ feat.out[i].away_off_epp4 = a.off_epa_per_play_roll4
                   /\ feat.out[i].home_off_epp8
                          = FillNa(h.off_epa_per_play_roll8, h.off_epa_per_play_roll4)
                   /\ feat.out[i].away_off_epp8
                          = FillNa(a.off_epa_per_play_roll8, a.off_epa_per_play_roll4)

\* What the merge on the team alone returns: for every game, one row for every
\* pair of a team-week row of the home team and one of the away team.
C25_RowsPerGame ==
    feat.pc = "done" =>
        /\ Len(feat.out) = Len(feat.sched) * Len(feat.sched) * Len(feat.sched)
        /\ \A g \in Range(feat.sched) :
               \A h \in Range(SelectTeam(feat.tw, g.home_team)) :
                   \A a \in Range(SelectTeam(feat.tw, g.away_team)) :
                       \E r \in Range(feat.out) :
                           /\ r.game_id = g.game_id
                           /\ r.home_off_epp4 = h.off_epa_per_play_roll4
                           /\ r.away_off_epp4 = a.off_epa_per_play_roll4

-----------------------------------------------------------------------------
(* PickSheetBuilder: scripts/fetch_and_build.build_pick_sheet, the merge   *)
(* of the schedule with the spread rows and the moneyline rows of the      *)
(* odds feed.                                                              *)
(*                                                                         *)
(* A schedule row is [game_id, home_team, away_team]; an event of the feed *)
(* is [home_team, away_team, home_line, bookmakers], home_line being the   *)
(* median home spread of its books (NaN when no book has a spreads market) *)
(* and bookmakers the h2h quotes as in the consensus model above.          *)

\* Rows of the schedule, and events of the feed.
MaxSheetGames == 2
MaxEvents == 2

SheetPairs == {<<"KC", "BUF">>, <<"BUF", "KC">>}
SheetLines == {NaN, Q(-7, 2)}
SheetBooks == {<<>>, <<[key |-> "draftkings", h |-> Q(-150, 1), a |-> Q(130, 1)]>>}

SheetSchedules ==
    UNION {{[i \in 1..n |-> [game_id |-> i, home_team |-> m[i][1], away_team |-> m[i][2]]] :
               m \in [1..n -> SheetPairs]} : n \in 0..MaxSheetGames}

SheetEvents ==
    {[home_team |-> m[1], away_team |-> m[2], home_line |-> l, bookmakers |-> b] :
        m \in SheetPairs, l \in SheetLines, b \in SheetBooks}

SheetFeeds == UNION {[1..n -> SheetEvents] : n \in 0..MaxEvents}

\* extract_spreads: one row per event, team codes normalized.
extract_spreads(raw) ==
    [i \in 1..Len(raw) |->
        [home_team |-> norm_codes(raw[i].home_team), away_team |-> norm_codes(raw[i].away_team),
         home_line |-> raw[i].home_line]]

\* extract_moneylines over the feed: one row per event, team codes normalized.
extract_moneylines_rows(raw) ==
    [i \in 1..Len(raw) |->
        LET row == extract_moneylines(raw[i].bookmakers, <<>>)
        IN  [home_team |-> norm_codes(raw[i].home_team),
             away_team |-> norm_codes(raw[i].away_team),
             home_ml |-> row.home_ml, home_prob |-> row.home_prob]]

RECURSIVE MatchPair(_, _, _)
\* The rows of a frame with the given (home_team, away_team), in order.
MatchPair(rows, home, away) ==
    IF rows = <<>> THEN <<>>
    ELSE (IF Head(rows).home_team = home /\ Head(rows).away_team = away
          THEN <<Head(rows)>> ELSE <<>>) \o MatchPair(Tail(rows), home, away)

\* base.merge(spreads, on=[home_team, away_team], how=left), one base row.
MergeSpreads(b, spreads) ==
    LET m == MatchPair(spreads, b.home_team, b.away_team)
    IN  IF m = <<>>
        THEN <<[game_id |-> b.game_id, home_team |-> b.home_team, away_team |-> b.away_team,
                home_line |-> NaN]>>
        ELSE [k \in 1..Len(m) |->
                 [game_id |-> b.game_id, home_team |-> b.home_team, away_team |-> b.away_team,
                  home_line |-> m[k].home_line]]

\* .merge(money, on=[home_team, away_team], how=left), one row.
MergeMoney(b, money) ==
    LET m == MatchPair(money, b.home_team, b.away_team)
    IN  IF m = <<>>
        THEN <<[game_id |-> b.game_id, home_team |-> b.home_team, away_team |-> b.away_team,
                home_line |-> b.home_line, home_ml |-> NaN, home_prob |-> NaN]>>
        ELSE [k \in 1..Len(m) |->
                 [game_id |-> b.game_id, home_team |-> b.home_team, away_team |-> b.away_team,
                  home_line |-> b.home_line, home_ml |-> m[k].home_ml,
                  home_prob |-> m[k].home_prob]]

\* Lines 241-247.
merge_pick_sheet(schedule, spreads, money) ==
    LET base == [i \in 1..Len(schedule) |->
                    [schedule[i] EXCEPT !.home_team = norm_codes(@), !.away_team = norm_codes(@)]]
        withSpreads == Flatten([i \in 1..Len(base) |-> MergeSpreads(base[i], spreads)])
    IN  Flatten([i \in 1..Len(withSpreads) |-> MergeMoney(withSpreads[i], money)])

SheetInit ==
    /\ sheet \in [pc : {"feed"}, schedule : SheetSchedules, raw : SheetFeeds,
                  spreads : {<<>>}, money : {<<>>}, out : {<<>>}]
    /\ kelly = Idle /\ conv = Idle /\ odds = Idle /\ upd = Idle /\ elo = Idle /\ roll = Idle
    /\ upc = Idle /\ reg = Idle /\ win = Idle /\ codes = Idle /\ feat = Idle /\ travel = Idle

\* Lines 238-239.  pd.DataFrame([]) has no columns, so df["home_team"] on the
\* rows of an empty feed raises KeyError.
SheetExtract ==
    /\ sheet.pc = "feed"
    /\ sheet' = IF sheet.raw = <<>> THEN [sheet EXCEPT !.pc = "raised"]
                ELSE [sheet EXCEPT !.pc = "extracted",
                                   !.spreads = extract_spreads(sheet.raw),
                                   !.money = extract_moneylines_rows(sheet.raw)]
    /\ UNCHANGED <<kelly, conv, odds, upd, elo, roll, upc, reg, win, codes, feat, travel>>

SheetMerge ==
    /\ sheet.pc = "extracted"
    /\ sheet' = [sheet EXCEPT !.pc = "done",
                              !.out = merge_pick_sheet(sheet.schedule, sheet.spreads, sheet.money)]
    /\ UNCHANGED <<kelly, conv, odds, upd, elo, roll, upc, reg, win, codes, feat, travel>>

SheetNext == SheetExtract \/ SheetMerge

SpecPickSheet == SheetInit /\ [][SheetNext]_vars

\* One row per game, in schedule order, with null odds for a game without an
\* event.
OneRowPerGame ==
    /\ Len(sheet.out) = Len(sheet.schedule)
    /\ \A i \in 1..Len(sheet.out) :
           /\ sheet.out[i].game_id = sheet.schedule[i].game_id
           /\ MatchPair(sheet.raw, sheet.schedule[i].home_team, sheet.schedule[i].away_team) = <<>>
                  => IsNull(sheet.out[i].home_line) /\ IsNull(sheet.out[i].home_ml)

(* C28: build_pick_sheet outputs exactly one row per game of the schedule  *)
(* for any odds feed, one with several events for a home/away pair         *)
(* included; a game with no odds keeps null odds fields.                   *)
C28_OneRowPerGame ==
    sheet.pc \in {"raised", "done"} => (sheet.pc = "done" /\ OneRowPerGame)

\* The same for a feed that is not empty and lists each pair once at most.
C28_DistinctEvents ==
    (sheet.pc \in {"raised", "done"} /\ sheet.raw # <<>>
        /\ \A i, j \in 1..Len(sheet.raw) :
               (i # j) => <<sheet.raw[i].home_team, sheet.raw[i].away_team>>
                              # <<sheet.raw[j].home_team, sheet.raw[j].away_team>>)
        => (sheet.pc = "done" /\ OneRowPerGame)

-----------------------------------------------------------------------------
(* RestTravel: rest_travel.add_rest_and_travel, the rest days of the two   *)
(* teams of each game.                                                     *)
(*                                                                         *)
(* A game is [home_team, away_team, gameday]; a gameday is a day number,   *)
(* NaT where the date is missing.  The stadium table has one row per team, *)
(* so the two stadium merges keep the rows as they are; the travel         *)
(* distance is not represented.  The function is called with the games to  *)
(* featurize and the schedule that gives the context: in training the two  *)
(* are the same frame, for the dashboard the first is the upcoming part of *)
(* the second.                                                             *)

\* Rows of past_sched.
MaxPast == 2

\* pd.NaT
NaT == 0
RestDays == {NaT, 1, 8}
RestPairs == {<<"KC", "BUF">>, <<"BUF", "KC">>, <<"KC", "SD">>}

RestGames == {[home_team |-> m[1], away_team |-> m[2], gameday |-> d] : m \in RestPairs, d \in RestDays}
PastSchedules == UNION {[1..n -> RestGames] : n \in 0..MaxPast}

\* (team, gameday) rows of hist: home rows and away rows, dated ones only.
TeamDates(past_sched, team) ==
    {past_sched[i].gameday : i \in {j \in 1..Len(past_sched) :
        /\ team \in {past_sched[j].home_team, past_sched[j].away_team}
        /\ past_sched[j].gameday # NaT}}

\* hist.groupby("team").gameday.max(): the left merge gives NaT to a team
\* without a dated game.
last_played(past_sched, team) ==
    LET ds == TeamDates(past_sched, team)
    IN  IF ds = {} THEN NaT ELSE CHOOSE d \in ds : \A e \in ds : e <= d

\* (gameday - last_played).dt.days
DaysBetween(gameday, last) == IF gameday = NaT \/ last = NaT THEN NaN ELSE Q(gameday - last, 1)

add_rest_and_travel(upcoming, past_sched) ==
    [i \in 1..Len(upcoming) |->
        LET g == upcoming[i]
            home_rest_days == DaysBetween(g.gameday, last_played(past_sched, g.home_team))
            away_rest_days == DaysBetween(g.gameday, last_played(past_sched, g.away_team))
        IN  [home_team |-> g.home_team, away_team |-> g.away_team, gameday |-> g.gameday,
             home_rest_days |-> home_rest_days, away_rest_days |-> away_rest_days,
             rest_delta |-> RSub(FillNa(home_rest_days, Zero), FillNa(away_rest_days, Zero))]]

RECURSIVE UpcomingPart(_, _)
\* up[up.gameday >= today]
UpcomingPart(sched, today) ==
    IF sched = <<>> THEN <<>>
    ELSE (IF Head(sched).gameday # NaT /\ Head(sched).gameday >= today
          THEN <<Head(sched)>> ELSE <<>>) \o UpcomingPart(Tail(sched), today)

\* The frames featurized against a schedule: the schedule itself (training),
\* its part from a day on (dashboard), or a game later than all of it.
LaterDay == 15
UpcomingFrames(past) ==
    {past} \cup {UpcomingPart(past, today) : today \in RestDays \ {NaT}}
        \cup {<<[home_team |-> m[1], away_team |-> m[2], gameday |-> LaterDay]>> : m \in RestPairs}

TravelInit ==
    /\ \E past \in PastSchedules :
           \E up \in UpcomingFrames(past) :
               travel = [pc |-> "call", past_sched |-> past, upcoming |-> up, out |-> <<>>]
    /\ kelly = Idle /\ conv = Idle /\ odds = Idle /\ upd = Idle /\ elo = Idle /\ roll = Idle
    /\ upc = Idle /\ reg = Idle /\ win = Idle /\ codes = Idle /\ feat = Idle /\ sheet = Idle

TravelAdd ==
    /\ travel.pc = "call"
    /\ travel' = [travel EXCEPT !.pc = "done",
                                !.out = add_rest_and_travel(travel.upcoming, travel.past_sched)]
    /\ UNCHANGED <<kelly, conv, odds, upd, elo, roll, upc, reg, win, codes, feat, sheet>>

TravelNext == TravelAdd

SpecRestTravel == TravelInit /\ [][TravelNext]_vars

\* The days since the team's most recent game dated strictly before the game,
\* null when there is none.
RestBefore(past_sched, team, gameday) ==
    LET ds == {d \in TeamDates(past_sched, team) : d < gameday}
    IN  IF gameday = NaT \/ ds = {} THEN NaN
        ELSE Q(gameday - (CHOOSE d \in ds : \A e \in ds : e <= d), 1)

(* C29: the rest days of a team for a game are counted from the team's     *)
(* most recent past_sched game dated strictly before the game: they are    *)
(* never negative and do not depend on a game dated on or after the game.  *)
C29_RestFromEarlierGame ==
    travel.pc = "done" =>
        \A i \in 1..Len(travel.out) :
            LET r == travel.out[i]
            IN  /\ r.home_rest_days = RestBefore(travel.past_sched, r.home_team, r.gameday)
                /\ r.away_rest_days = RestBefore(travel.past_sched, r.away_team, r.gameday)
                /\ ~IsNull(r.home_rest_days) => RLe(Zero, r.home_rest_days)
                /\ ~IsNull(r.away_rest_days) => RLe(Zero, r.away_rest_days)

\* What holds when every dated past_sched game is earlier than every game to
\* featurize.
C29_HistoryOnly ==
    (travel.pc = "done"
        /\ \A i \in 1..Len(travel.upcoming) : \A j \in 1..Len(travel.past_sched) :
               travel.past_sched[j].gameday = NaT
                   \/ travel.past_sched[j].gameday < travel.upcoming[i].gameday) =>
        \A i \in 1..Len(travel.out) :
            LET r == travel.out[i]
            IN  /\ r.home_rest_days = RestBefore(travel.past_sched, r.home_team, r.gameday)
                /\ r.away_rest_days = RestBefore(travel.past_sched, r.away_team, r.gameday)

=============================================================================
